---- MODULE Spec2Model ----
(***************************************************************************)
(* Meta-agent pipeline of experiments/scripts/meta_agent.py:               *)
(* AgentRequirements -> _analyze_requirements -> _select_templates ->      *)
(* template rendering -> '\n\n'.join -> QualityValidator.validate.         *)
(*                                                                         *)
(* Text is a sequence of tokens.  Every literal of the source is cut at    *)
(* its line ends ("\n" is a token of its own) and around every occurrence, *)
(* in any letter case, of a word the validator or a claim searches for     *)
(* (the rubric keywords, the role and domain strings of the inputs, the    *)
(* section headings), so that the concatenation of the tokens is the       *)
(* source text and  needle in text  of Python is "the tokens of the needle *)
(* are a contiguous run of the tokens of the text".                        *)
(***************************************************************************)
EXTENDS Integers, Sequences, FiniteSets, TLC

VARIABLES pc, caller, requirements, analysis, templates_to_use,
          template_context, sections, system_message, rule_index,
          results, result, error, meta_agent, history, suspended, interleaved

vars == <<pc, caller, requirements, analysis, templates_to_use,
          template_context, sections, system_message, rule_index,
          results, result, error, meta_agent, history, suspended, interleaved>>

(* ------------------------------ bounds -------------------------------- *)
MaxTools == 4

MaxCompetencies == 1

(* Python's None, for the record-valued variables not yet assigned. *)
None == [none |-> TRUE]

(* ------------------------------ enums --------------------------------- *)
ExpertiseLevel ==
  [ BEGINNER |-> "ExpertiseLevel.BEGINNER",
    INTERMEDIATE |-> "ExpertiseLevel.INTERMEDIATE",
    ADVANCED |-> "ExpertiseLevel.ADVANCED",
    EXPERT |-> "ExpertiseLevel.EXPERT" ]

TeamContext ==
  [ SOLO |-> "TeamContext.SOLO",
    COLLABORATIVE |-> "TeamContext.COLLABORATIVE",
    HIERARCHICAL |-> "TeamContext.HIERARCHICAL" ]

SafetyLevel ==
  [ LOW |-> "SafetyLevel.LOW",
    MEDIUM |-> "SafetyLevel.MEDIUM",
    HIGH |-> "SafetyLevel.HIGH" ]

(* member.value *)
Value(member) ==
  CASE member = ExpertiseLevel.BEGINNER -> "beginner"
    [] member = ExpertiseLevel.INTERMEDIATE -> "intermediate"
    [] member = ExpertiseLevel.ADVANCED -> "advanced"
    [] member = ExpertiseLevel.EXPERT -> "expert"
    [] member = TeamContext.SOLO -> "solo"
    [] member = TeamContext.COLLABORATIVE -> "collaborative"
    [] member = TeamContext.HIERARCHICAL -> "hierarchical"
    [] member = SafetyLevel.LOW -> "low"
    [] member = SafetyLevel.MEDIUM -> "medium"
    [] member = SafetyLevel.HIGH -> "high"

Members(enum) == {enum[k] : k \in DOMAIN enum}

(* Enum(raw): the member whose value is raw; "ValueError" when there is none. *)
EnumCall(enum, raw) ==
  IF \E m \in Members(enum) : Value(m) = raw
  THEN CHOOSE m \in Members(enum) : Value(m) = raw
  ELSE "ValueError"

(* ------------------------- strings and text --------------------------- *)
(* The line of three backquotes that opens and closes the reasoning        *)
(* pattern: a character a TLA+ string cannot hold.                         *)
CodeFence == "<three backquotes>"

RECURSIVE Cat(_)
(* The concatenation of a sequence of token sequences. *)
Cat(ss) == IF ss = <<>> THEN <<>> ELSE Head(ss) \o Cat(Tail(ss))

(* sep.join(parts) *)
join(parts, sep) ==
  Cat([i \in 1..Len(parts) |-> IF i = 1 THEN parts[i] ELSE sep \o parts[i]])

(* Faulty variant: an element equal to an earlier one is skipped. *)
ForEach_skipping_repeats(bodies) ==
  Cat([i \in 1..Len(bodies) |->
         IF \E j \in 1..(i - 1) : bodies[j] = bodies[i] THEN <<>> ELSE bodies[i]])

(* {% for x in items %}Body{% endfor %} *)
ForEach(bodies) == Cat(bodies)

LowerTable ==
     ("   - Adapt approach based on feedback" :> "   - adapt approach based on feedback")
  @@ ("   - Assess complexity and resource needs" :> "   - assess complexity and resource needs")
  @@ ("   - Break down the request into component parts" :> "   - break down the request into component parts")
  @@ ("   - Check outputs against requirements" :> "   - check outputs against requirements")
  @@ ("   - Confirm goal achievement" :> "   - confirm goal achievement")
  @@ ("   - Determine appropriate tools and methods" :> "   - determine appropriate tools and methods")
  @@ ("   - Execute plan with continuous monitoring" :> "   - execute plan with continuous monitoring")
  @@ ("   - Identify key requirements and " :> "   - identify key requirements and ")
  @@ ("   - Identify potential risks and mitigation strategies" :> "   - identify potential risks and mitigation strategies")
  @@ ("   - Plan step-by-step approach" :> "   - plan step-by-step approach")
  @@ ("   - Validate intermediate results" :> "   - validate intermediate results")
  @@ ("   - Verify quality standards compliance" :> "   - verify quality standards compliance")
  @@ ("  - Key techniques: " :> "  - key techniques: ")
  @@ ("  - Measurement: " :> "  - measurement: ")
  @@ ("  - Quality standards: " :> "  - quality standards: ")
  @@ ("  - Threshold: " :> "  - threshold: ")
  @@ (" Boundaries" :> " boundaries")
  @@ (" Framework" :> " framework")
  @@ (" Identity and Constitutional Foundation" :> " identity and constitutional foundation")
  @@ (" Phase**" :> " phase**")
  @@ (" Requirements" :> " requirements")
  @@ (" Requirements**:" :> " requirements**:")
  @@ (" Style" :> " style")
  @@ (" Triggers" :> " triggers")
  @@ (" [Results " :> " [results ")
  @@ (" [Specific action or tool use with clear rationale]" :> " [specific action or tool use with clear rationale]")
  @@ (" and Coordination" :> " and coordination")
  @@ (" and Operational " :> " and operational ")
  @@ (" and Recovery" :> " and recovery")
  @@ (" and Scope" :> " and scope")
  @@ (" and Standards" :> " and standards")
  @@ (" steps. If a solution requires more steps, break the problem into smaller sub-tasks or escalate for human guidance." :> " steps. if a solution requires more steps, break the problem into smaller sub-tasks or escalate for human guidance.")
  @@ (" tool for Python" :> " tool for python")
  @@ ("## Core Constitutional Principles" :> "## core constitutional principles")
  @@ ("## Domain Expertise" :> "## domain expertise")
  @@ ("## Output " :> "## output ")
  @@ ("## Reasoning and Problem-Solving Approach" :> "## reasoning and problem-solving approach")
  @@ ("### Circuit Breakers" :> "### circuit breakers")
  @@ ("### Completion Indicators" :> "### completion indicators")
  @@ ("### Domain-Specific Standards" :> "### domain-specific standards")
  @@ ("### Expert Decision Framework" :> "### expert decision framework")
  @@ ("### Maximum Reasoning Steps" :> "### maximum reasoning steps")
  @@ ("### Quality Assurance" :> "### quality assurance")
  @@ ("### Reasoning Pattern" :> "### reasoning pattern")
  @@ ("### Resource Management" :> "### resource management")
  @@ ("### Response Structure" :> "### response structure")
  @@ ("**: Acknowledge your limitations and express uncertainty when appropriate" :> "**: acknowledge your limitations and express uncertainty when appropriate")
  @@ ("**: Always validate tool outputs before proceeding" :> "**: always validate tool outputs before proceeding")
  @@ ("**: Always work toward achieving the user's legitimate goals" :> "**: always work toward achieving the user's legitimate goals")
  @@ ("**: Avoid actions that could cause harm to users or systems  " :> "**: avoid actions that could cause harm to users or systems  ")
  @@ ("**: Implement graceful fallbacks for tool failures" :> "**: implement graceful fallbacks for tool failures")
  @@ ("**: Show your reasoning process and explain your decisions" :> "**: show your reasoning process and explain your decisions")
  @@ ("**: [COMPLETED/PARTIAL/ESCALATED]" :> "**: [completed/partial/escalated]")
  @@ ("**: [PASSED/FAILED/PENDING]" :> "**: [passed/failed/pending]")
  @@ ("**Basic " :> "**basic ")
  @@ ("**Completion**: \"Completed [task] - Results: [summary] - Quality: [" :> "**completion**: \"completed [task] - results: [summary] - quality: [")
  @@ ("**Issues**: \"Blocked on [task] - Issue: [description] - Escalating to [target]\"" :> "**issues**: \"blocked on [task] - issue: [description] - escalating to [target]\"")
  @@ ("**Progress Updates**: \"Working on [task] - [progress]% complete - [current_step]\"" :> "**progress updates**: \"working on [task] - [progress]% complete - [current_step]\"")
  @@ ("**Standard " :> "**standard ")
  @@ ("**Use when**: " :> "**use when**: ")
  @@ ("**When delegating tasks**:" :> "**when delegating tasks**:")
  @@ ("**When receiving tasks**:" :> "**when receiving tasks**:")
  @@ ("- \"Approach: [planned_method]\"" :> "- \"approach: [planned_method]\"")
  @@ ("- \"Context: [relevant_background]\"" :> "- \"context: [relevant_background]\"")
  @@ ("- \"Deadline: [timeframe]\"" :> "- \"deadline: [timeframe]\"")
  @@ ("- \"Estimated completion: [timeframe]\"" :> "- \"estimated completion: [timeframe]\"")
  @@ ("- \"Passing [task] to [target_" :> "- \"passing [task] to [target_")
  @@ ("- \"Questions: [clarifications_needed]\"" :> "- \"questions: [clarifications_needed]\"")
  @@ ("- \"Received [task] from [source_" :> "- \"received [task] from [source_")
  @@ ("- \"Success criteria: [specific_measures]\"" :> "- \"success criteria: [specific_measures]\"")
  @@ ("- \"Understanding: [task_interpretation]\"" :> "- \"understanding: [task_interpretation]\"")
  @@ ("- **Confidence**: [HIGH/MEDIUM/LOW] " :> "- **confidence**: [high/medium/low] ")
  @@ ("- Always plan tool usage before execution" :> "- always plan tool usage before execution")
  @@ ("- Always validate potentially destructive operations" :> "- always validate potentially destructive operations")
  @@ ("- Approach: " :> "- approach: ")
  @@ ("- Avoid potentially harmful operations" :> "- avoid potentially harmful operations")
  @@ ("- Clarity: Use clear, specific language" :> "- clarity: use clear, specific language")
  @@ ("- Conflicting requirements or goals" :> "- conflicting requirements or goals")
  @@ ("- Follow standard operational procedures" :> "- follow standard operational procedures")
  @@ ("- Include XML declaration if required" :> "- include xml declaration if required")
  @@ ("- Include all requested in" :> "- include all requested in")
  @@ ("- Include all required fields" :> "- include all required fields")
  @@ ("- Include code blocks for technical content" :> "- include code blocks for technical content")
  @@ ("- Include relevant links and references" :> "- include relevant links and references")
  @@ ("- Key considerations: " :> "- key considerations: ")
  @@ ("- Log all significant actions" :> "- log all significant actions")
  @@ ("- Maintain comprehensive audit logs" :> "- maintain comprehensive audit logs")
  @@ ("- Maintain consistent " :> "- maintain consistent ")
  @@ ("- Maximum tool calls per task: " :> "- maximum tool calls per task: ")
  @@ ("- Monitor tool performance and adapt as needed" :> "- monitor tool performance and adapt as needed")
  @@ ("- Never perform actions that could cause system damage" :> "- never perform actions that could cause system damage")
  @@ ("- Organize in" :> "- organize in")
  @@ ("- Report unusual situations" :> "- report unusual situations")
  @@ ("- Require explicit confirmation for high-risk actions" :> "- require explicit confirmation for high-risk actions")
  @@ ("- Resource " :> "- resource ")
  @@ ("- Structure: Organize in" :> "- structure: organize in")
  @@ ("- Success criteria: " :> "- success criteria: ")
  @@ ("- Tone: " :> "- tone: ")
  @@ ("- Uncertainty about " :> "- uncertainty about ")
  @@ ("- Use clear headers and subheaders" :> "- use clear headers and subheaders")
  @@ ("- Use clear, structured text " :> "- use clear, structured text ")
  @@ ("- Use descriptive key names" :> "- use descriptive key names")
  @@ ("- Use lists and tables for organized in" :> "- use lists and tables for organized in")
  @@ ("- Use semantic tag names" :> "- use semantic tag names")
  @@ ("- Use valid JSON syntax" :> "- use valid json syntax")
  @@ ("- Use valid XML syntax with proper escaping" :> "- use valid xml syntax with proper escaping")
  @@ ("- Validate JSON structure before output" :> "- validate json structure before output")
  @@ ("- Validate XML structure before output" :> "- validate xml structure before output")
  @@ ("- Validate inputs and outputs for " :> "- validate inputs and outputs for ")
  @@ ("1. **Detection**: Monitor for errors, inconsistencies, and " :> "1. **detection**: monitor for errors, inconsistencies, and ")
  @@ ("1. **Problem " :> "1. **problem ")
  @@ ("1. **Selection**: Choose the most appropriate tool for each specific need" :> "1. **selection**: choose the most appropriate tool for each specific need")
  @@ ("1. **Summary**: Brief overview of what was accomplished" :> "1. **summary**: brief overview of what was accomplished")
  @@ ("1. Apply systematic " :> "1. apply systematic ")
  @@ ("1. Stop current operation immediately" :> "1. stop current operation immediately")
  @@ ("2. **Details**: Step-by-step breakdown of work performed" :> "2. **details**: step-by-step breakdown of work performed")
  @@ ("2. **Response**: Implement graceful " :> "2. **response**: implement graceful ")
  @@ ("2. Consider industry best practices and standards" :> "2. consider industry best practices and standards")
  @@ ("2. Document the issue clearly" :> "2. document the issue clearly")
  @@ ("3. **Execution Phase**" :> "3. **execution phase**")
  @@ ("3. **Recovery**: Use fallback procedures and alternative approaches" :> "3. **recovery**: use fallback procedures and alternative approaches")
  @@ ("3. **Results**: Specific outputs, findings, or deliverables" :> "3. **results**: specific outputs, findings, or deliverables")
  @@ ("3. Escalate to human oversight" :> "3. escalate to human oversight")
  @@ ("3. Validate against established quality criteria" :> "3. validate against established quality criteria")
  @@ ("4. **Efficiency**: Minimize unnecessary tool calls through " :> "4. **efficiency**: minimize unnecessary tool calls through ")
  @@ ("4. **Learning**: Document issues and improvements for future reference" :> "4. **learning**: document issues and improvements for future reference")
  @@ ("4. **Quality Check**: " :> "4. **quality check**: ")
  @@ ("4. **Verification Phase**  " :> "4. **verification phase**  ")
  @@ ("4. Do not attempt risky recovery procedures" :> "4. do not attempt risky recovery procedures")
  @@ ("4. Ensure compliance with relevant requirements" :> "4. ensure compliance with relevant requirements")
  @@ ("5. **Next Steps**: Recommendations or follow-up actions if applicable" :> "5. **next steps**: recommendations or follow-up actions if applicable")
  @@ ("AAAAAAAAAAAAAAAAAAAAAAAAAAAAAAAAAAAAAAAAAAAAAAAAAAAAAAAAAAAAAAAAAAAAAAAAAAAAAAAAAAAAAAAAAAAAAAAAAAAAAAAAAAAAAAAAAAAAAAAAAAAAAAAAAAAAAAAAAAAAAAAAAAAAAAAAAAAAAAAAAAAAAAAAAAAAAAAAAAAAAAAAAAAAAAAAAAAAAAAA" :> "aaaaaaaaaaaaaaaaaaaaaaaaaaaaaaaaaaaaaaaaaaaaaaaaaaaaaaaaaaaaaaaaaaaaaaaaaaaaaaaaaaaaaaaaaaaaaaaaaaaaaaaaaaaaaaaaaaaaaaaaaaaaaaaaaaaaaaaaaaaaaaaaaaaaaaaaaaaaaaaaaaaaaaaaaaaaaaaaaaaaaaaaaaaaaaaaaaaaaaaa")
  @@ ("ACTION:" :> "action:")
  @@ ("AGENT" :> "agent")
  @@ ("Action:" :> "action:")
  @@ ("Advanced Python programming and best practices" :> "advanced python programming and best practices")
  @@ ("Agent" :> "agent")
  @@ ("All code must meet quality standards" :> "all code must meet quality standards")
  @@ ("All outputs must meet:" :> "all outputs must meet:")
  @@ ("Always end responses with:" :> "always end responses with:")
  @@ ("Analysis" :> "analysis")
  @@ ("Architecture " :> "architecture ")
  @@ ("Architecture conflicts" :> "architecture conflicts")
  @@ ("Architecture design and documentation" :> "architecture design and documentation")
  @@ ("Async programming" :> "async programming")
  @@ ("Available Tools and Usage Guidelines" :> "available tools and usage guidelines")
  @@ ("Code Quality" :> "code quality")
  @@ ("Code review and optimization" :> "code review and optimization")
  @@ ("Communication" :> "communication")
  @@ ("Constraints" :> "constraints")
  @@ ("Continue this cycle until the task is complete or " :> "continue this cycle until the task is complete or ")
  @@ ("Core Competencies" :> "core competencies")
  @@ ("Critical" :> "critical")
  @@ ("Description 0" :> "description 0")
  @@ ("Design patterns" :> "design patterns")
  @@ ("Design scalable, maintainable software architectures for enterprise applications" :> "design scalable, maintainable software architectures for enterprise applications")
  @@ ("Develop, review, and optimize Python applications with focus on code quality, performance, and maintainability" :> "develop, review, and optimize python applications with focus on code quality, performance, and maintainability")
  @@ ("Do things" :> "do things")
  @@ ("Docstring conventions" :> "docstring conventions")
  @@ ("Ensure compliance with:" :> "ensure compliance with:")
  @@ ("Enterprise Software Development" :> "enterprise software development")
  @@ ("Error Handling" :> "error handling")
  @@ ("Error handling" :> "error handling")
  @@ ("Escalate to human oversight when:" :> "escalate to human oversight when:")
  @@ ("Escalation" :> "escalation")
  @@ ("For each task, follow this structured approach:" :> "for each task, follow this structured approach:")
  @@ ("Format" :> "format")
  @@ ("Functional programming" :> "functional programming")
  @@ ("Grade A or higher" :> "grade a or higher")
  @@ ("HARMLESSNESS" :> "harmlessness")
  @@ ("HONESTY" :> "honesty")
  @@ ("Handoff Protocols" :> "handoff protocols")
  @@ ("Harmlessness" :> "harmlessness")
  @@ ("Helpfulness" :> "helpfulness")
  @@ ("Honesty" :> "honesty")
  @@ ("If you encounter repeated failures or " :> "if you encounter repeated failures or ")
  @@ ("JSON" :> "json")
  @@ ("Json" :> "json")
  @@ ("Limit reasoning chains to " :> "limit reasoning chains to ")
  @@ ("Log " :> "log ")
  @@ ("Log error and continue with alternative approach" :> "log error and continue with alternative approach")
  @@ ("OOP principles" :> "oop principles")
  @@ ("Observation:" :> "observation:")
  @@ ("PEP 8 compliance" :> "pep 8 compliance")
  @@ ("PEP 8 style guide compliance" :> "pep 8 style guide compliance")
  @@ ("Performance requirements unclear" :> "performance requirements unclear")
  @@ ("Planning" :> "planning")
  @@ ("Purpose" :> "purpose")
  @@ ("Python 3.9+ compatibility" :> "python 3.9+ compatibility")
  @@ ("Python Development" :> "python development")
  @@ ("Reflection: [What this tells us and next steps]" :> "reflection: [what this tells us and next steps]")
  @@ ("Reporting" :> "reporting")
  @@ ("Resource " :> "resource ")
  @@ ("STATUS" :> "status")
  @@ ("Safety" :> "safety")
  @@ ("Security vulnerabilities detected" :> "security vulnerabilities detected")
  @@ ("Senior Python Developer" :> "senior python developer")
  @@ ("Senior Software Architect" :> "senior software architect")
  @@ ("Skill 0" :> "skill 0")
  @@ ("Software Development" :> "software development")
  @@ ("Specialized Scenarios" :> "specialized scenarios")
  @@ ("Static " :> "static ")
  @@ ("Static code " :> "static code ")
  @@ ("Status" :> "status")
  @@ ("Structured_markdown" :> "structured_markdown")
  @@ ("Structured_text" :> "structured_text")
  @@ ("Stuff" :> "stuff")
  @@ ("TRANSPARENCY" :> "transparency")
  @@ ("Team Integration" :> "team integration")
  @@ ("Test long role names" :> "test long role names")
  @@ ("Testing" :> "testing")
  @@ ("Thought:" :> "thought:")
  @@ ("Tool Usage Principles" :> "tool usage principles")
  @@ ("Transparency" :> "transparency")
  @@ ("Type hints usage" :> "type hints usage")
  @@ ("Use this structure for all responses:" :> "use this structure for all responses:")
  @@ ("Use this structured thinking pattern:" :> "use this structured thinking pattern:")
  @@ ("VALIDATION" :> "validation")
  @@ ("Validation" :> "validation")
  @@ ("Verify " :> "verify ")
  @@ ("When evaluating designs" :> "when evaluating designs")
  @@ ("When reviewing code quality, security, or performance" :> "when reviewing code quality, security, or performance")
  @@ ("When working on " :> "when working on ")
  @@ ("Xml" :> "xml")
  @@ ("You are " :> "you are ")
  @@ ("You have " :> "you have ")
  @@ ("You operate within a " :> "you operate within a ")
  @@ ("You work as part of a " :> "you work as part of a ")
  @@ ("Your primary " :> "your primary ")

(* str.lower() of one token *)
Lower(t) == IF t \in DOMAIN LowerTable THEN LowerTable[t] ELSE t

(* str.lower() of a text *)
lower(s) == [i \in 1..Len(s) |-> Lower(s[i])]

(* needle in hay; the empty needle is in every text, the empty one too. *)
In(needle, hay) ==
  \E i \in 0..(Len(hay) - Len(needle)) :
     \A j \in 1..Len(needle) : hay[i + j] = needle[j]

(* needle in hay.lower() *)
InLower(needle, hay) ==
  \E i \in 0..(Len(hay) - Len(needle)) :
     \A j \in 1..Len(needle) : Lower(hay[i + j]) = needle[j]

(* The |title filter on the output formats of the inputs (jinja2 3.x:      *)
(* first letter of each word up, the rest down; "_" does not start a word). *)
title(s) ==
  CASE s = <<"structured_text">> -> <<"Structured_text">>
    [] s = <<"structured_markdown">> -> <<"Structured_markdown">>
    [] s = <<"json">> -> <<"Json">>
    [] s = <<"JSON">> -> <<"Json">>
    [] s = <<"xml">> -> <<"Xml">>

(* Faulty variant: a defined name is true even when its value is empty. *)
Truthy_when_defined(ctx, key) == key \in DOMAIN ctx

(* ------------------ jinja2 environment (default Undefined) ------------ *)
(* A name the context does not supply is Undefined: false in a test.      *)
Truthy(ctx, key) == key \in DOMAIN ctx /\ ctx[key] # <<>>

(* env.globals *)
EnvGlobals == {"TeamContext", "SafetyLevel", "ExpertiseLevel"}

(* Faulty variant: StrictUndefined, which raises on every use. *)
UndefinedRaisesStrict(use) == TRUE

(* The default Undefined raises UndefinedError only when an attribute of   *)
(* it is taken; tested, printed, iterated or compared it is empty.         *)
UndefinedRaises(use) == use = "attr"

code_analyzer ==
  [ name |-> <<"code_analyzer">>,
    description |-> <<"Static code ", "analysis", " tool for Python">>,
    usage_conditions |-> <<"When reviewing code quality, security, or performance">>,
    validation_requirements |-> <<"Verify ", "analysis", " results align with coding standards">>,
    error_procedures |-> <<"Log ", "analysis", " errors and perform manual review">> ]

design_analyzer ==
  [ name |-> <<"design_analyzer">>,
    description |-> <<"Architecture ", "analysis", " tool">>,
    usage_conditions |-> <<"When evaluating designs">>,
    validation_requirements |-> <<>>,
    error_procedures |-> <<"Log error and continue with alternative approach">> ]

python_development ==
  [ name |-> <<"Python Development">>,
    description |-> <<"Advanced Python programming and best practices">>,
    techniques |-> <<<<"Design patterns">>, <<"OOP principles">>, <<"Functional programming">>, <<"Async programming">>>>,
    standards |-> <<<<"PEP 8 compliance">>, <<"Type hints usage">>, <<"Docstring conventions">>>> ]

skill_0 ==
  [ name |-> <<"Skill 0">>,
    description |-> <<"Description 0">>,
    techniques |-> <<>>,
    standards |-> <<>> ]

code_quality ==
  [ name |-> <<"Code Quality">>,
    description |-> <<"All code must meet quality standards">>,
    measurement_method |-> <<"Static ", "analysis", " score and review checklist">>,
    threshold |-> <<"Grade A or higher">> ]

poor_config ==
  [ role |-> <<"Agent">>,
    domain |-> <<"Stuff">>,
    primary_purpose |-> <<"Do things">>,
    work_environment |-> <<"general">>,
    primary_tasks |-> <<>>,
    max_tool_calls |-> 10,
    max_reasoning_steps |-> 20,
    communication_style |-> <<"professional">>,
    output_format |-> <<"structured_text">>,
    escalation_conditions |-> <<>>,
    quality_standards |-> <<>>,
    domain_standards |-> <<>> ]

technical_config ==
  [ role |-> <<"Senior Python Developer">>,
    domain |-> <<"Software Development">>,
    primary_purpose |-> <<"Develop, review, and optimize Python applications with focus on code quality, performance, and maintainability">>,
    work_environment |-> <<"agile_development">>,
    primary_tasks |-> <<<<"Code review and optimization">>, <<"Architecture design and documentation">>>>,
    max_tool_calls |-> 15,
    max_reasoning_steps |-> 25,
    communication_style |-> <<"technical_professional">>,
    output_format |-> <<"structured_markdown">>,
    escalation_conditions |-> <<<<"Security vulnerabilities detected">>, <<"Resource ", "constraints", " prevent completion">>>>,
    quality_standards |-> <<code_quality>>,
    domain_standards |-> <<<<"PEP 8 style guide compliance">>, <<"Python 3.9+ compatibility">>>> ]

edge_config ==
  [ role |-> <<"AAAAAAAAAAAAAAAAAAAAAAAAAAAAAAAAAAAAAAAAAAAAAAAAAAAAAAAAAAAAAAAAAAAAAAAAAAAAAAAAAAAAAAAAAAAAAAAAAAAAAAAAAAAAAAAAAAAAAAAAAAAAAAAAAAAAAAAAAAAAAAAAAAAAAAAAAAAAAAAAAAAAAAAAAAAAAAAAAAAAAAAAAAAAAAAAAAAAAAAA">>,
    domain |-> <<"Testing">>,
    primary_purpose |-> <<"Test long role names">>,
    work_environment |-> <<"general">>,
    primary_tasks |-> <<>>,
    max_tool_calls |-> 50,
    max_reasoning_steps |-> 100,
    communication_style |-> <<"professional">>,
    output_format |-> <<"json">>,
    escalation_conditions |-> <<<<"Architecture conflicts">>>>,
    quality_standards |-> <<>>,
    domain_standards |-> <<>> ]

good_config ==
  [ role |-> <<"Senior Software Architect">>,
    domain |-> <<"Enterprise Software Development">>,
    primary_purpose |-> <<"Design scalable, maintainable software architectures for enterprise applications">>,
    work_environment |-> <<"general">>,
    primary_tasks |-> <<>>,
    max_tool_calls |-> 10,
    max_reasoning_steps |-> 20,
    communication_style |-> <<"professional">>,
    output_format |-> <<"structured_text">>,
    escalation_conditions |-> <<<<"Architecture conflicts">>, <<"Performance requirements unclear">>>>,
    quality_standards |-> <<>>,
    domain_standards |-> <<>> ]

(* TemplateLibrary.TEMPLATES['constitutional_base'] *)
constitutional_base(ctx) ==
     <<"# ", "Agent", " Identity and Constitutional Foundation", "\n">>
  \o <<"You are ">>
  \o ctx.role
  \o <<", a ">>
  \o <<Value(ctx.expertise_level)>>
  \o <<" in ">>
  \o ctx.domain
  \o <<".", "\n">>
  \o <<"\n">>
  \o <<"## Core Constitutional Principles", "\n">>
  \o <<"- **", "Helpfulness", "**: Always work toward achieving the user's legitimate goals", "\n">>
  \o <<"- **", "Harmlessness", "**: Avoid actions that could cause harm to users or systems  ", "\n">>
  \o <<"- **", "Honesty", "**: Acknowledge your limitations and express uncertainty when appropriate", "\n">>
  \o <<"- **", "Transparency", "**: Show your reasoning process and explain your decisions", "\n">>
  \o <<"\n">>
  \o <<"## ", "Purpose", " and Scope", "\n">>
  \o <<"Your primary ", "purpose", " is to ">>
  \o ctx.primary_purpose
  \o <<".", "\n">>
  \o <<"\n">>
  \o (IF ctx.team_context # TeamContext.SOLO THEN
           <<"\n">>
        \o <<"## ", "Team Integration", "\n">>
        \o (IF ctx.team_context = TeamContext.COLLABORATIVE THEN
                 <<"\n">>
              \o <<"You work as part of a ", "collaborative", " team where ", "agent", "s coordinate as equals, sharing in", "format", "ion and delegating tasks based on expertise and availability.", "\n">>
              ELSE IF ctx.team_context = TeamContext.HIERARCHICAL THEN
                 <<"\n">>
              \o <<"You operate within a ", "hierarchical", " structure with clear ", "reporting", " lines and delegation protocols.", "\n">>
              ELSE <<>>)
        \o <<"\n">>
        ELSE <<>>)

(* TemplateLibrary.TEMPLATES['role_specialization'] *)
role_specialization(ctx) ==
     <<"## Domain Expertise", "\n">>
  \o <<"You have ">>
  \o ctx.experience_years
  \o <<" years of equivalent experience in ">>
  \o ctx.domain
  \o <<".", "\n">>
  \o <<"\n">>
  \o (IF Truthy(ctx, "core_competencies") THEN
           <<"\n">>
        \o <<"### ", "Core Competencies", "\n">>
        \o ForEach([i_competency \in 1..Len(ctx.core_competencies) |-> LET competency == ctx.core_competencies[i_competency] IN
                 <<"\n">>
              \o <<"- **">>
              \o competency.name
              \o <<"**: ">>
              \o competency.description
              \o <<"\n">>
              \o (IF competency.techniques # <<>> THEN
                       <<"\n">>
                    \o <<"  - Key techniques: ">>
                    \o join(competency.techniques, <<", ">>)
                    \o <<"\n">>
                    ELSE <<>>)
              \o <<"\n">>
              \o (IF competency.standards # <<>> THEN
                       <<"\n">>
                    \o <<"  - Quality standards: ">>
                    \o join(competency.standards, <<", ">>)
                    \o <<"\n">>
                    ELSE <<>>)
              \o <<"\n">>])
        \o <<"\n">>
        ELSE <<>>)
  \o <<"\n">>
  \o <<"\n">>
  \o <<"### Expert Decision Framework", "\n">>
  \o <<"When working on ">>
  \o ctx.domain
  \o <<" tasks:", "\n">>
  \o <<"1. Apply systematic ", "analysis", " and domain-specific methodologies", "\n">>
  \o <<"2. Consider industry best practices and standards", "\n">>
  \o <<"3. Validate against established quality criteria", "\n">>
  \o <<"4. Ensure compliance with relevant requirements", "\n">>
  \o <<"\n">>
  \o (IF Truthy(ctx, "decision_scenarios") THEN
           <<"\n">>
        \o <<"### ", "Specialized Scenarios", "\n">>
        \o ForEach([i_scenario \in 1..Len(ctx.decision_scenarios) |-> LET scenario == ctx.decision_scenarios[i_scenario] IN
                 <<"\n">>
              \o <<"**">>
              \o scenario.name
              \o <<"**:", "\n">>
              \o <<"- Approach: ">>
              \o scenario.approach
              \o <<"\n">>
              \o (IF scenario.considerations # <<>> THEN
                       <<"\n">>
                    \o <<"- Key considerations: ">>
                    \o join(scenario.considerations, <<", ">>)
                    \o <<"\n">>
                    ELSE <<>>)
              \o <<"\n">>
              \o (IF scenario.success_criteria # <<>> THEN
                       <<"\n">>
                    \o <<"- Success criteria: ">>
                    \o join(scenario.success_criteria, <<", ">>)
                    \o <<"\n">>
                    ELSE <<>>)
              \o <<"\n">>])
        \o <<"\n">>
        ELSE <<>>)

(* TemplateLibrary.TEMPLATES['reasoning_structure'] *)
reasoning_structure(ctx) ==
     <<"## Reasoning and Problem-Solving Approach", "\n">>
  \o <<"\n">>
  \o <<"### ", "Analysis", " Framework", "\n">>
  \o <<"For each task, follow this structured approach:", "\n">>
  \o <<"\n">>
  \o <<"1. **Problem ", "Analysis", "**", "\n">>
  \o <<"   - Break down the request into component parts", "\n">>
  \o <<"   - Identify key requirements and ", "constraints", "  ", "\n">>
  \o <<"   - Assess complexity and resource needs", "\n">>
  \o <<"\n">>
  \o <<"2. **", "Planning", " Phase**", "\n">>
  \o <<"   - Determine appropriate tools and methods", "\n">>
  \o <<"   - Plan step-by-step approach", "\n">>
  \o <<"   - Identify potential risks and mitigation strategies", "\n">>
  \o <<"\n">>
  \o <<"3. **Execution Phase**", "\n">>
  \o <<"   - Execute plan with continuous monitoring", "\n">>
  \o <<"   - Validate intermediate results", "\n">>
  \o <<"   - Adapt approach based on feedback", "\n">>
  \o <<"\n">>
  \o <<"4. **Verification Phase**  ", "\n">>
  \o <<"   - Check outputs against requirements", "\n">>
  \o <<"   - Verify quality standards compliance", "\n">>
  \o <<"   - Confirm goal achievement", "\n">>
  \o <<"\n">>
  \o <<"### Reasoning Pattern", "\n">>
  \o <<"Use this structured thinking pattern:", "\n">>
  \o <<"\n">>
  \o <<CodeFence, "\n">>
  \o <<"Thought:", " [", "Analysis", " of current situation and requirements]", "\n">>
  \o <<"Action:", " [Specific action or tool use with clear rationale]", "\n">>
  \o <<"Observation:", " [Results ", "analysis", " and implications]", "\n">>
  \o <<"Reflection: [What this tells us and next steps]", "\n">>
  \o <<CodeFence, "\n">>
  \o <<"\n">>
  \o <<"Continue this cycle until the task is complete or ", "escalation", " is needed.", "\n">>
  \o <<"\n">>
  \o <<"### Maximum Reasoning Steps", "\n">>
  \o <<"Limit reasoning chains to ">>
  \o <<ToString(ctx.max_reasoning_steps)>>
  \o <<" steps. If a solution requires more steps, break the problem into smaller sub-tasks or escalate for human guidance.">>

(* TemplateLibrary.TEMPLATES['tool_integration'] *)
tool_integration(ctx) ==
     (IF Truthy(ctx, "tools_available") THEN
           <<"\n">>
        \o <<"## ", "Available Tools and Usage Guidelines", "\n">>
        \o <<"\n">>
        \o ForEach([i_tool \in 1..Len(ctx.tools_available) |-> LET tool == ctx.tools_available[i_tool] IN
                 <<"\n">>
              \o <<"### ">>
              \o tool.name
              \o <<"\n">>
              \o <<"**", "Purpose", "**: ">>
              \o tool.description
              \o <<"\n">>
              \o <<"**Use when**: ">>
              \o tool.usage_conditions
              \o <<"\n">>
              \o (IF tool.validation_requirements # <<>> THEN
                       <<"\n">>
                    \o <<"**", "Validation", "**: ">>
                    \o tool.validation_requirements
                    \o <<"\n">>
                    ELSE <<>>)
              \o <<"\n">>
              \o <<"**", "Error handling", "**: ">>
              \o tool.error_procedures
              \o <<"\n">>
              \o <<"\n">>])
        \o <<"\n">>
        \o <<"\n">>
        \o <<"### ", "Tool Usage Principles", "\n">>
        \o <<"1. **Selection**: Choose the most appropriate tool for each specific need", "\n">>
        \o <<"2. **", "Validation", "**: Always validate tool outputs before proceeding", "\n">>
        \o <<"3. **", "Error Handling", "**: Implement graceful fallbacks for tool failures", "\n">>
        \o <<"4. **Efficiency**: Minimize unnecessary tool calls through ", "planning", "\n">>
        \o <<"\n">>
        \o <<"### Resource Management", "\n">>
        \o <<"- Maximum tool calls per task: ">>
        \o <<ToString(ctx.max_tool_calls)>>
        \o <<"\n">>
        \o <<"- Always plan tool usage before execution", "\n">>
        \o <<"- Monitor tool performance and adapt as needed", "\n">>
        ELSE <<>>)

(* TemplateLibrary.TEMPLATES['communication_protocols'] *)
communication_protocols(ctx) ==
     <<"## ", "Communication", " and Coordination", "\n">>
  \o <<"\n">>
  \o <<"### ", "Communication", " Style", "\n">>
  \o <<"- Tone: ">>
  \o ctx.communication_style
  \o <<"\n">>
  \o <<"- ", "Format", ": ">>
  \o ctx.output_format
  \o <<"\n">>
  \o <<"- Clarity: Use clear, specific language", "\n">>
  \o <<"- Structure: Organize in", "format", "ion logically", "\n">>
  \o <<"\n">>
  \o <<"### ", "Status", " ", "Reporting", "\n">>
  \o <<"**Progress Updates**: \"Working on [task] - [progress]% complete - [current_step]\"", "\n">>
  \o <<"**Completion**: \"Completed [task] - Results: [summary] - Quality: [", "validation", "_", "status", "]\"", "\n">>
  \o <<"**Issues**: \"Blocked on [task] - Issue: [description] - Escalating to [target]\"", "\n">>
  \o <<"\n">>
  \o (IF ctx.team_context # TeamContext.SOLO THEN
           <<"\n">>
        \o <<"### ", "Handoff Protocols", "\n">>
        \o <<"**When delegating tasks**:", "\n">>
        \o <<"- \"Passing [task] to [target_", "agent", "] because [reason]\"", "\n">>
        \o <<"- \"Context: [relevant_background]\"", "\n">>
        \o <<"- \"Success criteria: [specific_measures]\"", "\n">>
        \o <<"- \"Deadline: [timeframe]\"", "\n">>
        \o <<"\n">>
        \o <<"**When receiving tasks**:", "\n">>
        \o <<"- \"Received [task] from [source_", "agent", "]\"", "\n">>
        \o <<"- \"Understanding: [task_interpretation]\"", "\n">>
        \o <<"- \"Approach: [planned_method]\"", "\n">>
        \o <<"- \"Questions: [clarifications_needed]\"", "\n">>
        \o <<"- \"Estimated completion: [timeframe]\"", "\n">>
        ELSE <<>>)
  \o <<"\n">>
  \o <<"\n">>
  \o <<"### ", "Escalation", " Triggers", "\n">>
  \o <<"Escalate to human oversight when:", "\n">>
  \o ForEach([i_condition \in 1..Len(ctx.escalation_conditions) |-> LET condition == ctx.escalation_conditions[i_condition] IN
           <<"\n">>
        \o <<"- ">>
        \o condition
        \o <<"\n">>])
  \o <<"\n">>
  \o <<"- Uncertainty about ", "safety", " implications", "\n">>
  \o <<"- Resource ", "constraints", " prevent task completion", "\n">>
  \o <<"- Conflicting requirements or goals">>

(* TemplateLibrary.TEMPLATES['safety_constraints'] *)
safety_constraints(ctx) ==
     <<"## ", "Safety", " and Operational ", "Constraints", "\n">>
  \o <<"\n">>
  \o <<"### ", "Safety", " Boundaries", "\n">>
  \o (IF ctx.safety_level = SafetyLevel.HIGH THEN
           <<"\n">>
        \o <<"**", "Critical", " ", "Safety", " Requirements**:", "\n">>
        \o <<"- Never perform actions that could cause system damage", "\n">>
        \o <<"- Always validate potentially destructive operations", "\n">>
        \o <<"- Require explicit confirmation for high-risk actions", "\n">>
        \o <<"- Maintain comprehensive audit logs", "\n">>
        ELSE IF ctx.safety_level = SafetyLevel.MEDIUM THEN
           <<"\n">>
        \o <<"**Standard ", "Safety", " Requirements**:", "\n">>
        \o <<"- Validate inputs and outputs for ", "safety", "\n">>
        \o <<"- Avoid potentially harmful operations", "\n">>
        \o <<"- Log all significant actions", "\n">>
        ELSE
           <<"\n">>
        \o <<"**Basic ", "Safety", " Requirements**:", "\n">>
        \o <<"- Follow standard operational procedures", "\n">>
        \o <<"- Report unusual situations", "\n">>)
  \o <<"\n">>
  \o <<"\n">>
  \o <<"### Quality Assurance", "\n">>
  \o (IF Truthy(ctx, "quality_standards") THEN
           <<"\n">>
        \o <<"All outputs must meet:", "\n">>
        \o ForEach([i_standard \in 1..Len(ctx.quality_standards) |-> LET standard == ctx.quality_standards[i_standard] IN
                 <<"\n">>
              \o <<"- ">>
              \o standard.name
              \o <<": ">>
              \o standard.description
              \o <<"\n">>
              \o <<"  - Measurement: ">>
              \o standard.measurement_method
              \o <<"\n">>
              \o <<"  - Threshold: ">>
              \o standard.threshold
              \o <<"\n">>])
        \o <<"\n">>
        ELSE <<>>)
  \o <<"\n">>
  \o <<"\n">>
  \o (IF Truthy(ctx, "domain_standards") THEN
           <<"\n">>
        \o <<"### Domain-Specific Standards", "\n">>
        \o <<"Ensure compliance with:", "\n">>
        \o ForEach([i_standard \in 1..Len(ctx.domain_standards) |-> LET standard == ctx.domain_standards[i_standard] IN
                 <<"\n">>
              \o <<"- ">>
              \o standard
              \o <<"\n">>])
        \o <<"\n">>
        ELSE <<>>)
  \o <<"\n">>
  \o <<"\n">>
  \o <<"### ", "Error Handling", " and Recovery", "\n">>
  \o <<"1. **Detection**: Monitor for errors, inconsistencies, and ", "safety", " issues", "\n">>
  \o <<"2. **Response**: Implement graceful ", "error handling", " with clear error messages", "\n">>
  \o <<"3. **Recovery**: Use fallback procedures and alternative approaches", "\n">>
  \o <<"4. **Learning**: Document issues and improvements for future reference", "\n">>
  \o <<"\n">>
  \o <<"### Circuit Breakers", "\n">>
  \o <<"If you encounter repeated failures or ", "safety", " concerns:", "\n">>
  \o <<"1. Stop current operation immediately", "\n">>
  \o <<"2. Document the issue clearly", "\n">>
  \o <<"3. Escalate to human oversight", "\n">>
  \o <<"4. Do not attempt risky recovery procedures">>

(* TemplateLibrary.TEMPLATES['output_formatting'] *)
output_formatting(ctx) ==
     <<"## Output ", "Format", " and Standards", "\n">>
  \o <<"\n">>
  \o <<"### Response Structure", "\n">>
  \o <<"Use this structure for all responses:", "\n">>
  \o <<"\n">>
  \o <<"1. **Summary**: Brief overview of what was accomplished", "\n">>
  \o <<"2. **Details**: Step-by-step breakdown of work performed", "\n">>
  \o <<"3. **Results**: Specific outputs, findings, or deliverables", "\n">>
  \o <<"4. **Quality Check**: ", "Validation", " against requirements and standards", "\n">>
  \o <<"5. **Next Steps**: Recommendations or follow-up actions if applicable", "\n">>
  \o <<"\n">>
  \o <<"### ">>
  \o title(ctx.output_format)
  \o <<" ", "Format", " Requirements", "\n">>
  \o (IF ctx.output_format = <<"structured_markdown">> THEN
           <<"\n">>
        \o <<"- Use clear headers and subheaders", "\n">>
        \o <<"- Include code blocks for technical content", "\n">>
        \o <<"- Use lists and tables for organized in", "format", "ion", "\n">>
        \o <<"- Include relevant links and references", "\n">>
        ELSE IF ctx.output_format = <<"json">> THEN
           <<"\n">>
        \o <<"- Use valid JSON syntax", "\n">>
        \o <<"- Include all required fields", "\n">>
        \o <<"- Validate JSON structure before output", "\n">>
        \o <<"- Use descriptive key names", "\n">>
        ELSE IF ctx.output_format = <<"xml">> THEN
           <<"\n">>
        \o <<"- Use valid XML syntax with proper escaping", "\n">>
        \o <<"- Include XML declaration if required", "\n">>
        \o <<"- Use semantic tag names", "\n">>
        \o <<"- Validate XML structure before output", "\n">>
        ELSE
           <<"\n">>
        \o <<"- Use clear, structured text ", "format", "\n">>
        \o <<"- Organize in", "format", "ion with headers and bullets", "\n">>
        \o <<"- Include all requested in", "format", "ion", "\n">>
        \o <<"- Maintain consistent ", "format", "ting", "\n">>)
  \o <<"\n">>
  \o <<"\n">>
  \o <<"### Completion Indicators", "\n">>
  \o <<"Always end responses with:", "\n">>
  \o <<"- **", "Status", "**: [COMPLETED/PARTIAL/ESCALATED]", "\n">>
  \o <<"- **Confidence**: [HIGH/MEDIUM/LOW] ", "\n">>
  \o <<"- **", "Validation", "**: [PASSED/FAILED/PENDING]">>
(* The names each template reads from the context, with the way the first  *)
(* evaluated reference uses them: "print" {{x}}, "attr" {{x.y}}, "test"    *)
(* {% if x %}, "compare" {% if x == .. %}, "iter" {% for .. in x %}.       *)
TemplateRefs(name) ==
  CASE name = "constitutional_base" ->
         { <<"role", "print">>, <<"expertise_level", "attr">>, <<"domain", "print">>,
           <<"primary_purpose", "print">>, <<"team_context", "compare">>,
           <<"TeamContext", "attr">> }
    [] name = "role_specialization" ->
         { <<"experience_years", "print">>, <<"domain", "print">>,
           <<"core_competencies", "test">>, <<"decision_scenarios", "test">> }
    [] name = "reasoning_structure" ->
         { <<"max_reasoning_steps", "print">> }
    [] name = "tool_integration" ->
         { <<"tools_available", "test">>, <<"max_tool_calls", "print">> }
    [] name = "communication_protocols" ->
         { <<"communication_style", "print">>, <<"output_format", "print">>,
           <<"team_context", "compare">>, <<"TeamContext", "attr">>,
           <<"escalation_conditions", "iter">> }
    [] name = "safety_constraints" ->
         { <<"safety_level", "compare">>, <<"SafetyLevel", "attr">>,
           <<"quality_standards", "test">>, <<"domain_standards", "test">> }
    [] name = "output_formatting" ->
         { <<"output_format", "print">> }

(* The context keys a template reads that neither the context nor the      *)
(* environment's globals supply.                                           *)
MissingKeys(name, ctx) ==
  {ref[1] : ref \in {r \in TemplateRefs(name) :
                       r[1] \notin DOMAIN ctx /\ r[1] \notin EnvGlobals}}

(* template.render raises *)
RenderRaises(name, ctx) ==
  \E ref \in TemplateRefs(name) :
     /\ ref[1] \notin DOMAIN ctx
     /\ ref[1] \notin EnvGlobals
     /\ UndefinedRaises(ref[2])

(* env.get_template(template_name).render *)
Render(name, ctx) ==
  CASE name = "constitutional_base" -> constitutional_base(ctx)
    [] name = "role_specialization" -> role_specialization(ctx)
    [] name = "reasoning_structure" -> reasoning_structure(ctx)
    [] name = "tool_integration" -> tool_integration(ctx)
    [] name = "communication_protocols" -> communication_protocols(ctx)
    [] name = "safety_constraints" -> safety_constraints(ctx)
    [] name = "output_formatting" -> output_formatting(ctx)

(* ------------------------- AgentRequirements -------------------------- *)
(* The dataclass constructor: stores its arguments, checks none of them. *)
AgentRequirements(config, expertise_level, team_context, safety_level, tools_available, core_competencies) ==
  [ role |-> config.role,
    domain |-> config.domain,
    expertise_level |-> expertise_level,
    primary_purpose |-> config.primary_purpose,
    team_context |-> team_context,
    work_environment |-> config.work_environment,
    primary_tasks |-> config.primary_tasks,
    tools_available |-> tools_available,
    core_competencies |-> core_competencies,
    safety_level |-> safety_level,
    max_tool_calls |-> config.max_tool_calls,
    max_reasoning_steps |-> config.max_reasoning_steps,
    communication_style |-> config.communication_style,
    output_format |-> config.output_format,
    escalation_conditions |-> config.escalation_conditions,
    quality_standards |-> config.quality_standards,
    domain_standards |-> config.domain_standards ]

(* ------------------------------ inputs -------------------------------- *)
Configs == {poor_config, technical_config, edge_config}

ToolPool == <<code_analyzer, design_analyzer>>

CompetencyPool == <<python_development, skill_0>>

(* The first n elements of the pool, repeated cyclically (names need not   *)
(* be unique).                                                             *)
Take(pool, n) == [i \in 1..n |-> pool[((i - 1) % Len(pool)) + 1]]

(* Raw values as a configuration file or a careless caller gives them. *)
RawExpertise == {"beginner", "intermediate", "advanced", "expert", "guru"}

RawTeam == {"solo", "collaborative", "hierarchical", "freelance"}

RawSafety == {"low", "medium", "high", "extreme"}

(* ----------------------------- MetaAgent ------------------------------ *)
(* self.experience_mapping *)
experience_mapping ==
  (ExpertiseLevel.BEGINNER :> <<"1-2">>) @@
  (ExpertiseLevel.INTERMEDIATE :> <<"3-5">>) @@
  (ExpertiseLevel.ADVANCED :> <<"6-10">>) @@
  (ExpertiseLevel.EXPERT :> <<"10+">>)

(* Faulty variant: the dict literal without its EXPERT entry. *)
expertise_score_without_expert ==
  (ExpertiseLevel.BEGINNER :> 1) @@
  (ExpertiseLevel.INTERMEDIATE :> 2) @@
  (ExpertiseLevel.ADVANCED :> 3)

(* The dict literal of _analyze_requirements. *)
expertise_score ==
  (ExpertiseLevel.BEGINNER :> 1) @@
  (ExpertiseLevel.INTERMEDIATE :> 2) @@
  (ExpertiseLevel.ADVANCED :> 3) @@
  (ExpertiseLevel.EXPERT :> 4)

min(a, b) == IF a < b THEN a ELSE b

(* Faulty variant: the tool term is not capped at 3. *)
_analyze_requirements_uncapped(req) ==
  LET s1 == expertise_score[req.expertise_level]
      s2 == s1 + Len(req.tools_available)
      s3 == IF req.team_context # TeamContext.SOLO THEN s2 + 2 ELSE s2
      complexity_score == IF req.safety_level = SafetyLevel.HIGH THEN s3 + 2 ELSE s3
  IN  [ complexity_score |-> complexity_score,
        needs_specialization |-> Len(req.core_competencies) > 0,
        needs_tool_integration |-> Len(req.tools_available) > 0,
        needs_team_coordination |-> req.team_context # TeamContext.SOLO,
        needs_enhanced_safety |-> req.safety_level = SafetyLevel.HIGH ]

(* Faulty variant: every primary task adds a point to the score. *)
_analyze_requirements_counting_tasks(req) ==
  LET s1 == expertise_score[req.expertise_level]
      s2 == s1 + min(Len(req.tools_available), 3)
      s3 == IF req.team_context # TeamContext.SOLO THEN s2 + 2 ELSE s2
      s4 == IF req.safety_level = SafetyLevel.HIGH THEN s3 + 2 ELSE s3
  IN  [ complexity_score |-> s4 + Len(req.primary_tasks),
        needs_specialization |-> Len(req.core_competencies) > 0,
        needs_tool_integration |-> Len(req.tools_available) > 0,
        needs_team_coordination |-> req.team_context # TeamContext.SOLO,
        needs_enhanced_safety |-> req.safety_level = SafetyLevel.HIGH ]

_analyze_requirements(req) ==
  LET s0 == 0
      s1 == s0 + expertise_score[req.expertise_level]
      s2 == s1 + min(Len(req.tools_available), 3)
      s3 == IF req.team_context # TeamContext.SOLO THEN s2 + 2 ELSE s2
      complexity_score == IF req.safety_level = SafetyLevel.HIGH THEN s3 + 2 ELSE s3
  IN  [ complexity_score |-> complexity_score,
        needs_specialization |-> Len(req.core_competencies) > 0,
        needs_tool_integration |-> Len(req.tools_available) > 0,
        needs_team_coordination |-> req.team_context # TeamContext.SOLO,
        needs_enhanced_safety |-> req.safety_level = SafetyLevel.HIGH ]

(* Faulty variant: tool_integration is appended before reasoning_structure. *)
_select_templates_tools_first(a) ==
  LET t0 == <<"constitutional_base">>
      t1 == IF a.needs_specialization \/ a.complexity_score >= 3
            THEN Append(t0, "role_specialization") ELSE t0
      t2 == IF a.needs_tool_integration THEN Append(t1, "tool_integration") ELSE t1
      t3 == Append(t2, "reasoning_structure")
      t4 == Append(t3, "communication_protocols")
      t5 == Append(t4, "safety_constraints")
  IN  Append(t5, "output_formatting")

(* Faulty variant: the complexity score no longer selects role_specialization. *)
_select_templates_competencies_only(a) ==
  LET t0 == <<"constitutional_base">>
      t1 == IF a.needs_specialization
            THEN Append(t0, "role_specialization") ELSE t0
      t2 == Append(t1, "reasoning_structure")
      t3 == IF a.needs_tool_integration THEN Append(t2, "tool_integration") ELSE t2
      t4 == Append(t3, "communication_protocols")
      t5 == Append(t4, "safety_constraints")
  IN  Append(t5, "output_formatting")

(* Faulty variant: tool_integration is selected whether or not there are tools. *)
_select_templates_always_tools(a) ==
  LET t0 == <<"constitutional_base">>
      t1 == IF a.needs_specialization \/ a.complexity_score >= 3
            THEN Append(t0, "role_specialization") ELSE t0
      t2 == Append(t1, "reasoning_structure")
      t3 == Append(t2, "tool_integration")
      t4 == Append(t3, "communication_protocols")
      t5 == Append(t4, "safety_constraints")
  IN  Append(t5, "output_formatting")

(* Faulty variant: the constitutional base is not selected. *)
_select_templates_without_base(a) ==
  LET t1 == IF a.needs_specialization \/ a.complexity_score >= 3
            THEN <<"role_specialization">> ELSE <<>>
      t2 == Append(t1, "reasoning_structure")
      t3 == IF a.needs_tool_integration THEN Append(t2, "tool_integration") ELSE t2
      t4 == Append(t3, "communication_protocols")
      t5 == Append(t4, "safety_constraints")
  IN  Append(t5, "output_formatting")

_select_templates(a) ==
  LET t0 == <<"constitutional_base">>
      t1 == IF a.needs_specialization \/ a.complexity_score >= 3
            THEN Append(t0, "role_specialization") ELSE t0
      t2 == Append(t1, "reasoning_structure")
      t3 == IF a.needs_tool_integration THEN Append(t2, "tool_integration") ELSE t2
      t4 == Append(t3, "communication_protocols")
      t5 == Append(t4, "safety_constraints")
  IN  Append(t5, "output_formatting")

(* Faulty variant: team_context is passed by its value, not as the member. *)
_build_template_context_team_value(req) ==
  [ role |-> req.role,
    domain |-> req.domain,
    expertise_level |-> req.expertise_level,
    primary_purpose |-> req.primary_purpose,
    team_context |-> IF req.team_context \in Members(TeamContext)
                    THEN Value(req.team_context) ELSE req.team_context,
    work_environment |-> req.work_environment,
    primary_tasks |-> req.primary_tasks,
    tools_available |-> req.tools_available,
    core_competencies |-> req.core_competencies,
    max_tool_calls |-> req.max_tool_calls,
    max_reasoning_steps |-> req.max_reasoning_steps,
    communication_style |-> req.communication_style,
    output_format |-> req.output_format,
    escalation_conditions |-> req.escalation_conditions,
    quality_standards |-> req.quality_standards,
    domain_standards |-> req.domain_standards,
    safety_level |-> req.safety_level,
    experience_years |-> meta_agent.experience_mapping[req.expertise_level] ]

(* Faulty variant: safety_level is passed by its value, not as the member. *)
_build_template_context_safety_value(req) ==
  [ role |-> req.role,
    domain |-> req.domain,
    expertise_level |-> req.expertise_level,
    primary_purpose |-> req.primary_purpose,
    team_context |-> req.team_context,
    work_environment |-> req.work_environment,
    primary_tasks |-> req.primary_tasks,
    tools_available |-> req.tools_available,
    core_competencies |-> req.core_competencies,
    max_tool_calls |-> req.max_tool_calls,
    max_reasoning_steps |-> req.max_reasoning_steps,
    communication_style |-> req.communication_style,
    output_format |-> req.output_format,
    escalation_conditions |-> req.escalation_conditions,
    quality_standards |-> req.quality_standards,
    domain_standards |-> req.domain_standards,
    safety_level |-> IF req.safety_level \in Members(SafetyLevel)
                    THEN Value(req.safety_level) ELSE req.safety_level,
    experience_years |-> meta_agent.experience_mapping[req.expertise_level] ]

(* Faulty variant: output_format is lower-cased on its way into the context. *)
_build_template_context_lowercase_format(req) ==
  [ role |-> req.role,
    domain |-> req.domain,
    expertise_level |-> req.expertise_level,
    primary_purpose |-> req.primary_purpose,
    team_context |-> req.team_context,
    work_environment |-> req.work_environment,
    primary_tasks |-> req.primary_tasks,
    tools_available |-> req.tools_available,
    core_competencies |-> req.core_competencies,
    max_tool_calls |-> req.max_tool_calls,
    max_reasoning_steps |-> req.max_reasoning_steps,
    communication_style |-> req.communication_style,
    output_format |-> lower(req.output_format),
    escalation_conditions |-> req.escalation_conditions,
    quality_standards |-> req.quality_standards,
    domain_standards |-> req.domain_standards,
    safety_level |-> req.safety_level,
    experience_years |-> meta_agent.experience_mapping[req.expertise_level] ]

_build_template_context(req) ==
  [ role |-> req.role,
    domain |-> req.domain,
    expertise_level |-> req.expertise_level,
    primary_purpose |-> req.primary_purpose,
    team_context |-> req.team_context,
    work_environment |-> req.work_environment,
    primary_tasks |-> req.primary_tasks,
    tools_available |-> req.tools_available,
    core_competencies |-> req.core_competencies,
    max_tool_calls |-> req.max_tool_calls,
    max_reasoning_steps |-> req.max_reasoning_steps,
    communication_style |-> req.communication_style,
    output_format |-> req.output_format,
    escalation_conditions |-> req.escalation_conditions,
    quality_standards |-> req.quality_standards,
    domain_standards |-> req.domain_standards,
    safety_level |-> req.safety_level,
    experience_years |-> meta_agent.experience_mapping[req.expertise_level] ]

(* Faulty variant: the sections are joined with a single line end. *)
join_sections_single_newline(secs) == join(secs, <<"\n">>)

(* '\n\n'.join(sections) *)
join_sections(secs) == join(secs, <<"\n", "\n">>)

(* -------------------------- QualityValidator -------------------------- *)
validation_rules ==
  << "_check_constitutional_compliance", "_check_role_clarity",
     "_check_reasoning_structure", "_check_safety_constraints",
     "_check_communication_protocols" >>

(* rule.__name__.replace('_check_', '') *)
check_name(rule) ==
  CASE rule = "_check_constitutional_compliance" -> "constitutional_compliance"
    [] rule = "_check_role_clarity" -> "role_clarity"
    [] rule = "_check_reasoning_structure" -> "reasoning_structure"
    [] rule = "_check_safety_constraints" -> "safety_constraints"
    [] rule = "_check_communication_protocols" -> "communication_protocols"

(* sum(1 for k in keywords if k.lower() in message.lower()) *)
CountIn(keywords, msg) ==
  Cardinality({i \in 1..Len(keywords) : InLower(<<Lower(keywords[i])>>, msg)})

(* Faulty variant: all four principles are required. *)
_check_constitutional_compliance_all_four(msg, req) ==
  LET required_principles == <<"helpfulness", "harmlessness", "honesty", "transparency">>
      found_principles == SelectSeq(required_principles,
                                    LAMBDA p : InLower(<<Lower(p)>>, msg))
      passed == Len(found_principles) >= 4
  IN  [ passed |-> passed,
        found_principles |-> found_principles,
        suggestions |-> IF passed THEN <<>>
                        ELSE <<"Add explicit constitutional principles section">> ]

_check_constitutional_compliance(msg, req) ==
  LET required_principles == <<"helpfulness", "harmlessness", "honesty", "transparency">>
      found_principles == SelectSeq(required_principles,
                                    LAMBDA p : InLower(<<Lower(p)>>, msg))
      passed == Len(found_principles) >= 3
  IN  [ passed |-> passed,
        found_principles |-> found_principles,
        suggestions |-> IF passed THEN <<>>
                        ELSE <<"Add explicit constitutional principles section">> ]

(* Faulty variant: one canned suggestion, and only on failure. *)
_check_role_clarity_one_suggestion(msg, req) ==
  LET has_role == InLower(lower(req.role), msg)
      has_domain == InLower(lower(req.domain), msg)
      has_purpose == InLower(<<"purpose">>, msg)
      clarity_score == Cardinality({k \in {1, 2, 3} :
                          <<has_role, has_domain, has_purpose>>[k]})
      passed == clarity_score >= 2
  IN  [ passed |-> passed,
        clarity_score |-> clarity_score,
        suggestions |-> IF passed THEN <<>>
                        ELSE <<"Include explicit role definition">> ]

(* Faulty variant: role and domain are searched as written, the text not   *)
(* lower-cased.                                                            *)
_check_role_clarity_case_sensitive(msg, req) ==
  LET has_role == In(req.role, msg)
      has_domain == In(req.domain, msg)
      has_purpose == InLower(<<"purpose">>, msg)
      clarity_score == Cardinality({k \in {1, 2, 3} :
                          <<has_role, has_domain, has_purpose>>[k]})
      s1 == IF ~has_role THEN <<"Include explicit role definition">> ELSE <<>>
      s2 == IF ~has_domain THEN Append(s1, "Specify domain expertise") ELSE s1
      s3 == IF ~has_purpose THEN Append(s2, "Define clear purpose statement") ELSE s2
  IN  [ passed |-> clarity_score >= 2,
        clarity_score |-> clarity_score,
        suggestions |-> s3 ]

(* Faulty variant: the text is lower-cased, role and domain are not. *)
_check_role_clarity_needle_not_lowered(msg, req) ==
  LET has_role == InLower(req.role, msg)
      has_domain == InLower(req.domain, msg)
      has_purpose == InLower(<<"purpose">>, msg)
      clarity_score == Cardinality({k \in {1, 2, 3} :
                          <<has_role, has_domain, has_purpose>>[k]})
      s1 == IF ~has_role THEN <<"Include explicit role definition">> ELSE <<>>
      s2 == IF ~has_domain THEN Append(s1, "Specify domain expertise") ELSE s1
      s3 == IF ~has_purpose THEN Append(s2, "Define clear purpose statement") ELSE s2
  IN  [ passed |-> clarity_score >= 2,
        clarity_score |-> clarity_score,
        suggestions |-> s3 ]

(* Faulty variant: an empty role or domain is never found. *)
_check_role_clarity_empty_absent(msg, req) ==
  LET has_role == req.role # <<>> /\ InLower(lower(req.role), msg)
      has_domain == req.domain # <<>> /\ InLower(lower(req.domain), msg)
      has_purpose == InLower(<<"purpose">>, msg)
      clarity_score == Cardinality({k \in {1, 2, 3} :
                          <<has_role, has_domain, has_purpose>>[k]})
      s1 == IF ~has_role THEN <<"Include explicit role definition">> ELSE <<>>
      s2 == IF ~has_domain THEN Append(s1, "Specify domain expertise") ELSE s1
      s3 == IF ~has_purpose THEN Append(s2, "Define clear purpose statement") ELSE s2
  IN  [ passed |-> clarity_score >= 2,
        clarity_score |-> clarity_score,
        suggestions |-> s3 ]

_check_role_clarity(msg, req) ==
  LET has_role == InLower(lower(req.role), msg)
      has_domain == InLower(lower(req.domain), msg)
      has_purpose == InLower(<<"purpose">>, msg)
      clarity_score == Cardinality({k \in {1, 2, 3} :
                          <<has_role, has_domain, has_purpose>>[k]})
      s1 == IF ~has_role THEN <<"Include explicit role definition">> ELSE <<>>
      s2 == IF ~has_domain THEN Append(s1, "Specify domain expertise") ELSE s1
      s3 == IF ~has_purpose THEN Append(s2, "Define clear purpose statement") ELSE s2
  IN  [ passed |-> clarity_score >= 2,
        clarity_score |-> clarity_score,
        suggestions |-> s3 ]

(* Faulty variant: three patterns are required. *)
_check_reasoning_structure_three(msg, req) ==
  LET reasoning_patterns == <<"thought:", "action:", "observation:", "analysis", "planning">>
      found_patterns == CountIn(reasoning_patterns, msg)
      passed == found_patterns >= 3
  IN  [ passed |-> passed,
        reasoning_patterns_found |-> found_patterns,
        suggestions |-> IF passed THEN <<>>
                        ELSE <<"Add structured reasoning framework">> ]

_check_reasoning_structure(msg, req) ==
  LET reasoning_patterns == <<"thought:", "action:", "observation:", "analysis", "planning">>
      found_patterns == CountIn(reasoning_patterns, msg)
      passed == found_patterns >= 2
  IN  [ passed |-> passed,
        reasoning_patterns_found |-> found_patterns,
        suggestions |-> IF passed THEN <<>>
                        ELSE <<"Add structured reasoning framework">> ]

(* Faulty variant: one keyword is enough at every safety level. *)
_check_safety_constraints_flat_threshold(msg, req) ==
  LET safety_keywords == <<"safety", "error handling", "escalation", "validation", "constraints">>
      found_keywords == CountIn(safety_keywords, msg)
      passed == found_keywords >= 1
  IN  [ passed |-> passed,
        safety_keywords_found |-> found_keywords,
        suggestions |-> IF passed THEN <<>>
                        ELSE <<"Add more explicit safety constraints and procedures">> ]

_check_safety_constraints(msg, req) ==
  LET safety_keywords == <<"safety", "error handling", "escalation", "validation", "constraints">>
      found_keywords == CountIn(safety_keywords, msg)
      required_safety_level == IF req.safety_level = SafetyLevel.HIGH THEN 2 ELSE 1
      passed == found_keywords >= required_safety_level
  IN  [ passed |-> passed,
        safety_keywords_found |-> found_keywords,
        suggestions |-> IF passed THEN <<>>
                        ELSE <<"Add more explicit safety constraints and procedures">> ]

(* Faulty variant: the failing check gives no suggestion. *)
_check_communication_protocols_without_suggestion(msg, req) ==
  LET comm_elements == <<"communication", "reporting", "status", "format">>
      found_elements == CountIn(comm_elements, msg)
  IN  [ passed |-> found_elements >= 2,
        communication_elements |-> found_elements,
        suggestions |-> <<>> ]

_check_communication_protocols(msg, req) ==
  LET comm_elements == <<"communication", "reporting", "status", "format">>
      found_elements == CountIn(comm_elements, msg)
      passed == found_elements >= 2
  IN  [ passed |-> passed,
        communication_elements |-> found_elements,
        suggestions |-> IF passed THEN <<>>
                        ELSE <<"Add clear communication and reporting protocols">> ]

(* rule(system_message, requirements) *)
ApplyRule(rule, msg, req) ==
  CASE rule = "_check_constitutional_compliance" -> _check_constitutional_compliance(msg, req)
    [] rule = "_check_role_clarity" -> _check_role_clarity(msg, req)
    [] rule = "_check_reasoning_structure" -> _check_reasoning_structure(msg, req)
    [] rule = "_check_safety_constraints" -> _check_safety_constraints(msg, req)
    [] rule = "_check_communication_protocols" -> _check_communication_protocols(msg, req)

(* The results dict validate starts from. *)
InitialResults == [overall_pass |-> TRUE, checks |-> <<>>, suggestions |-> <<>>]

(* Faulty variant: overall_pass follows the last rule alone. *)
RecordCheck_last_wins(res, name, check_result) ==
  [ overall_pass |-> check_result.passed,
    checks |-> (name :> check_result) @@ res.checks,
    suggestions |-> IF ~check_result.passed
                    THEN res.suggestions \o check_result.suggestions
                    ELSE res.suggestions ]

(* Faulty variant: the suggestions of a passing check are collected too. *)
RecordCheck_extend_always(res, name, check_result) ==
  [ overall_pass |-> IF ~check_result.passed THEN FALSE ELSE res.overall_pass,
    checks |-> (name :> check_result) @@ res.checks,
    suggestions |-> res.suggestions \o check_result.suggestions ]

(* The body of validate's loop for one rule. *)
RecordCheck(res, name, check_result) ==
  [ overall_pass |-> IF ~check_result.passed THEN FALSE ELSE res.overall_pass,
    checks |-> (name :> check_result) @@ res.checks,
    suggestions |-> IF ~check_result.passed
                    THEN res.suggestions \o check_result.suggestions
                    ELSE res.suggestions ]

(* validate's loop from rule k on. *)
RECURSIVE validate_from(_, _, _, _)
validate_from(k, res, msg, req) ==
  IF k > Len(validation_rules) THEN res
  ELSE validate_from(k + 1,
                     RecordCheck(res, check_name(validation_rules[k]),
                                 ApplyRule(validation_rules[k], msg, req)),
                     msg, req)

(* QualityValidator.validate run from its first statement to its return. *)
validate(msg, req) == validate_from(1, InitialResults, msg, req)

(* generate_system_message run from its first statement to its return. *)
generate_system_message(req) ==
  LET a == _analyze_requirements(req)
      names == _select_templates(a)
      ctx == _build_template_context(req)
      msg == join_sections([i \in 1..Len(names) |-> Render(names[i], ctx)])
  IN  [ system_message |-> msg,
        validation |-> validate(msg, req),
        analysis |-> a,
        templates_used |-> names ]

(* Texts handed to validate directly: for each rubric check a line that    *)
(* satisfies it or no such line.                                           *)
Kits ==
  << <<"Helpfulness", " ", "Harmlessness", " ", "HONESTY">>,
     <<"Agent", " ", "purpose">>,
     <<"Thought:", " ", "Action:">>,
     <<"Safety">>,
     <<"Status", " ", "Reporting">> >>

TextOf(chosen) ==
  join(SelectSeq([i \in 1..Len(Kits) |-> IF i \in chosen THEN Kits[i] ELSE <<>>],
                 LAMBDA k : k # <<>>),
       <<"\n">>)

TestTexts == {TextOf(chosen) : chosen \in SUBSET (1..Len(Kits))}

(* The words each rubric check searches for, in several letter cases: the  *)
(* principle words, the role and domain of poor_config with 'purpose', the *)
(* reasoning patterns, the safety keywords, the communication elements.    *)
WordPools ==
  << <<"Helpfulness", "HARMLESSNESS", "honesty", "Transparency">>,
     <<"AGENT", "stuff", "Purpose">>,
     <<"Thought:", "ACTION:", "observation:", "Analysis", "planning">>,
     <<"Safety", "Error Handling", "escalation", "VALIDATION", "constraints">>,
     <<"Communication", "reporting", "STATUS", "Format">> >>

(* The chosen words of a pool, separated by blanks. *)
WordsText(pool, chosen) ==
  join(SelectSeq([i \in 1..Len(pool) |-> IF i \in chosen THEN <<pool[i]>> ELSE <<>>],
                 LAMBDA w : w # <<>>),
       <<" ">>)

(* Texts handed to validate directly: every selection of the words of one   *)
(* pool.                                                                    *)
KeywordTexts ==
  UNION {{WordsText(WordPools[p], chosen) : chosen \in SUBSET (1..Len(WordPools[p]))} :
           p \in 1..Len(WordPools)}

(* MetaAgent(): the attributes generate reads from the instance. *)
MetaAgent == [experience_mapping |-> experience_mapping]

(* good_requirements of test_validation_quality. *)
good_requirements ==
  AgentRequirements(good_config, ExpertiseLevel.EXPERT, TeamContext.SOLO,
                    SafetyLevel.MEDIUM, <<design_analyzer>>, <<>>)

(* poor_requirements of test_validation_quality. *)
poor_requirements ==
  AgentRequirements(poor_config, ExpertiseLevel.BEGINNER, TeamContext.SOLO,
                    SafetyLevel.MEDIUM, <<>>, <<>>)

(* The technical example: expert, collaborative, high safety, three tools  *)
(* and three competencies.                                                 *)
senior_python_developer ==
  AgentRequirements(technical_config, ExpertiseLevel.EXPERT, TeamContext.COLLABORATIVE,
                    SafetyLevel.HIGH, Take(ToolPool, 3), Take(CompetencyPool, 3))

(* Values of the output_format string: the default, the three the template *)
(* names, and another spelling of one of them.                             *)
OutputFormats ==
  { <<"structured_text">>, <<"structured_markdown">>, <<"json">>, <<"xml">>, <<"JSON">> }

(* The vague requirements with each of the output formats. *)
FormatExamples == { [poor_requirements EXCEPT !.output_format = f] : f \in OutputFormats }

Examples == {good_requirements, senior_python_developer} \cup FormatExamples

(* The requirements of the repeated calls: the vague and the technical     *)
(* configuration, at both ends of each enum, with and without a tool and a *)
(* competency.                                                             *)
RepeatInputs ==
  { AgentRequirements(config, e, t, s, Take(ToolPool, nt), Take(CompetencyPool, nc)) :
      config \in {poor_config, technical_config},
      e \in {ExpertiseLevel.BEGINNER, ExpertiseLevel.EXPERT},
      t \in {TeamContext.SOLO, TeamContext.COLLABORATIVE},
      s \in {SafetyLevel.MEDIUM, SafetyLevel.HIGH},
      nt \in {0, 1}, nc \in {0, 1} }

(* The requirements whose first result is kept for comparison with the     *)
(* results of later calls.                                                 *)
Tracked ==
  { req \in RepeatInputs :
      /\ req.expertise_level = ExpertiseLevel.EXPERT
      /\ Len(req.tools_available) = Len(req.core_competencies) }

(* The locals of a call that has not started. *)
StartFrame ==
  [ pc |-> "start", caller |-> "none", requirements |-> None, analysis |-> None,
    templates_to_use |-> <<>>, template_context |-> None, sections |-> <<>>,
    system_message |-> <<>>, rule_index |-> 0, results |-> None, result |-> None,
    error |-> "none" ]

(* ------------------------------- state -------------------------------- *)
Init ==
  /\ pc = "start"
  /\ caller = "none"
  /\ requirements = None
  /\ analysis = None
  /\ templates_to_use = <<>>
  /\ template_context = None
  /\ sections = <<>>
  /\ system_message = <<>>
  /\ rule_index = 0
  /\ results = None
  /\ result = None
  /\ error = "none"
  /\ meta_agent = MetaAgent
  /\ history = None
  /\ suspended = StartFrame
  /\ interleaved = FALSE

(* AgentRequirements(...) called with whatever the caller passes for the   *)
(* enum fields: members, or raw strings.                                   *)
Construct ==
  /\ pc = "start"
  /\ \E config \in Configs,
        e \in Members(ExpertiseLevel) \cup {"guru"},
        t \in Members(TeamContext) \cup {"freelance"},
        s \in Members(SafetyLevel) \cup {"extreme"},
        nt \in 0..MaxTools, nc \in 0..MaxCompetencies :
        /\ \/ /\ e \in Members(ExpertiseLevel)
              /\ t \in Members(TeamContext)
              /\ s \in Members(SafetyLevel)
           \/ config = poor_config /\ nt = 0 /\ nc = 0
        /\ requirements' = AgentRequirements(config, e, t, s,
                              Take(ToolPool, nt), Take(CompetencyPool, nc))
  /\ pc' = "constructed"
  /\ UNCHANGED <<caller, analysis, templates_to_use, template_context, sections,
                 system_message, rule_index, results, result, error>>
  /\ UNCHANGED <<meta_agent, history, suspended, interleaved>>

(* AgentRequirements(...) as the example configuration and the tests      *)
(* build it.                                                               *)
ConstructExample ==
  /\ pc = "start"
  /\ \E req \in Examples : requirements' = req
  /\ pc' = "constructed"
  /\ UNCHANGED <<caller, analysis, templates_to_use, template_context, sections,
                 system_message, rule_index, results, result, error>>
  /\ UNCHANGED <<meta_agent, history, suspended, interleaved>>

(* load_config_from_yaml / main: the enum fields go through the enum       *)
(* constructors, which raise ValueError before AgentRequirements is built. *)
LoadConfig ==
  /\ pc = "start"
  /\ \E config \in Configs, e \in RawExpertise, t \in RawTeam, s \in RawSafety,
        nt \in 0..MaxTools, nc \in 0..MaxCompetencies :
        LET el == EnumCall(ExpertiseLevel, e)
            tc == EnumCall(TeamContext, t)
            sl == EnumCall(SafetyLevel, s)
        IN  IF "ValueError" \in {el, tc, sl}
            THEN /\ pc' = "raised"
                 /\ error' = "ValueError"
                 /\ UNCHANGED requirements
            ELSE /\ pc' = "constructed"
                 /\ requirements' = AgentRequirements(config, el, tc, sl,
                                       Take(ToolPool, nt), Take(CompetencyPool, nc))
                 /\ UNCHANGED error
  /\ UNCHANGED <<caller, analysis, templates_to_use, template_context, sections,
                 system_message, rule_index, results, result>>
  /\ UNCHANGED <<meta_agent, history, suspended, interleaved>>

(* generate_system_message, first statement: analysis = _analyze_requirements *)
Analyze ==
  /\ pc = "constructed"
  /\ caller' = "generate"
  /\ IF requirements.expertise_level \in DOMAIN expertise_score
     THEN /\ analysis' = _analyze_requirements(requirements)
          /\ pc' = "select"
          /\ UNCHANGED error
     ELSE /\ pc' = "raised"
          /\ error' = "KeyError"
          /\ UNCHANGED analysis
  /\ UNCHANGED <<requirements, templates_to_use, template_context, sections,
                 system_message, rule_index, results, result>>
  /\ UNCHANGED <<meta_agent, history, suspended, interleaved>>

Select ==
  /\ pc = "select"
  /\ templates_to_use' = _select_templates(analysis)
  /\ pc' = "context"
  /\ UNCHANGED <<caller, requirements, analysis, template_context, sections,
                 system_message, rule_index, results, result, error>>
  /\ UNCHANGED <<meta_agent, history, suspended, interleaved>>

(* Faulty variant: the entry read from self.experience_mapping is         *)
(* overwritten on the instance.                                           *)
BuildContext_overwriting_mapping ==
  /\ pc = "context"
  /\ sections' = <<>>
  /\ template_context' = _build_template_context(requirements)
  /\ pc' = "render"
  /\ UNCHANGED <<caller, requirements, analysis, templates_to_use,
                 system_message, rule_index, results, result, error>>
  /\ meta_agent' = [meta_agent EXCEPT
                      !.experience_mapping[requirements.expertise_level] = <<"0">>]
  /\ UNCHANGED <<history, suspended, interleaved>>

BuildContext ==
  /\ pc = "context"
  /\ sections' = <<>>
  /\ template_context' = _build_template_context(requirements)
  /\ pc' = "render"
  /\ UNCHANGED <<caller, requirements, analysis, templates_to_use,
                 system_message, rule_index, results, result, error>>
  /\ UNCHANGED <<meta_agent, history, suspended, interleaved>>

(* One iteration of the loop over templates_to_use. *)
RenderSection ==
  /\ pc = "render"
  /\ Len(sections) < Len(templates_to_use)
  /\ LET template_name == templates_to_use[Len(sections) + 1]
     IN  IF RenderRaises(template_name, template_context)
         THEN /\ pc' = "raised"
              /\ error' = "UndefinedError"
              /\ UNCHANGED sections
         ELSE /\ sections' = Append(sections, Render(template_name, template_context))
              /\ UNCHANGED <<pc, error>>
  /\ UNCHANGED <<caller, requirements, analysis, templates_to_use, template_context,
                 system_message, rule_index, results, result>>
  /\ UNCHANGED <<meta_agent, history, suspended, interleaved>>

(* system_message = '\n\n'.join(sections), then the call of validate. *)
Join ==
  /\ pc = "render"
  /\ Len(sections) = Len(templates_to_use)
  /\ system_message' = join_sections(sections)
  /\ results' = InitialResults
  /\ rule_index' = 1
  /\ pc' = "validate"
  /\ UNCHANGED <<caller, requirements, analysis, templates_to_use, template_context,
                 sections, result, error>>
  /\ UNCHANGED <<meta_agent, history, suspended, interleaved>>

(* Configurations with role = '' and domain = '', and with role = ''      *)
(* alone: the dataclass takes any string.                                  *)
UnnamedConfigs ==
  { [poor_config EXCEPT !.role = <<>>, !.domain = <<>>],
    [poor_config EXCEPT !.role = <<>>] }

(* QualityValidator.validate called on its own with a text. *)
CallValidate ==
  /\ pc = "start"
  /\ \E text \in TestTexts \cup KeywordTexts, config \in Configs \cup UnnamedConfigs,
        s \in Members(SafetyLevel) :
        /\ requirements' = AgentRequirements(config, ExpertiseLevel.BEGINNER,
                              TeamContext.SOLO, s, <<>>, <<>>)
        /\ system_message' = text
  /\ caller' = "validate"
  /\ results' = InitialResults
  /\ rule_index' = 1
  /\ pc' = "validate"
  /\ UNCHANGED <<analysis, templates_to_use, template_context, sections, result, error>>
  /\ UNCHANGED <<meta_agent, history, suspended, interleaved>>

(* One iteration of validate's loop over validation_rules. *)
ValidateRule ==
  /\ pc = "validate"
  /\ rule_index <= Len(validation_rules)
  /\ LET rule == validation_rules[rule_index]
     IN  results' = RecordCheck(results, check_name(rule),
                                ApplyRule(rule, system_message, requirements))
  /\ rule_index' = rule_index + 1
  /\ UNCHANGED <<pc, caller, requirements, analysis, templates_to_use,
                 template_context, sections, system_message, result, error>>
  /\ UNCHANGED <<meta_agent, history, suspended, interleaved>>

(* The return statements of validate and of generate_system_message. *)
ReturnResult ==
  /\ pc = "validate"
  /\ rule_index > Len(validation_rules)
  /\ result' = IF caller = "generate"
               THEN [ system_message |-> system_message,
                      validation |-> results,
                      analysis |-> analysis,
                      templates_used |-> templates_to_use ]
               ELSE results
  /\ pc' = "done"
  /\ UNCHANGED <<caller, requirements, analysis, templates_to_use, template_context,
                 sections, system_message, rule_index, results, error>>
  /\ UNCHANGED <<meta_agent, suspended, interleaved>>

(* validate returns results; generate_system_message returns its dict. *)
Return == ReturnResult /\ UNCHANGED history

(* Return, the first result returned for tracked requirements being kept  *)
(* and a later call with the same requirements being noted.               *)
ReturnRecorded ==
  /\ ReturnResult
  /\ history' = IF caller = "generate" /\ history = None /\ requirements \in Tracked
                THEN [requirements |-> requirements, result |-> result', repeated |-> FALSE]
                ELSE IF caller = "generate" /\ history # None
                        /\ history.requirements = requirements
                THEN [history EXCEPT !.repeated = TRUE]
                ELSE history

(* The caller drops the result (or the exception) and the next call starts. *)
NextCall ==
  /\ pc \in {"done", "raised"}
  /\ pc' = "start"
  /\ caller' = "none"
  /\ requirements' = None
  /\ analysis' = None
  /\ templates_to_use' = <<>>
  /\ template_context' = None
  /\ sections' = <<>>
  /\ system_message' = <<>>
  /\ rule_index' = 0
  /\ results' = None
  /\ result' = None
  /\ error' = "none"
  /\ interleaved' = FALSE
  /\ UNCHANGED <<meta_agent, history, suspended>>

(* The caller builds a new MetaAgent() for the next call. *)
NewMetaAgent ==
  /\ pc \in {"done", "raised"}
  /\ pc' = "start"
  /\ caller' = "none"
  /\ requirements' = None
  /\ analysis' = None
  /\ templates_to_use' = <<>>
  /\ template_context' = None
  /\ sections' = <<>>
  /\ system_message' = <<>>
  /\ rule_index' = 0
  /\ results' = None
  /\ result' = None
  /\ error' = "none"
  /\ meta_agent' = MetaAgent
  /\ interleaved' = FALSE
  /\ UNCHANGED <<history, suspended>>

Next ==
  \/ Construct
  \/ ConstructExample
  \/ LoadConfig
  \/ Analyze
  \/ Select
  \/ BuildContext
  \/ RenderSection
  \/ Join
  \/ CallValidate
  \/ ValidateRule
  \/ Return
  \/ NextCall
  \/ NewMetaAgent

Spec == Init /\ [][Next]_vars

(* ------------------------- repeated calls ------------------------------ *)
(* AgentRequirements(...) for one of the requirements of the repeated calls. *)
ConstructRepeat ==
  /\ pc = "start"
  /\ \E req \in RepeatInputs : requirements' = req
  /\ pc' = "constructed"
  /\ UNCHANGED <<caller, analysis, templates_to_use, template_context, sections,
                 system_message, rule_index, results, result, error>>
  /\ UNCHANGED <<meta_agent, history, suspended, interleaved>>

NextRepeat ==
  \/ ConstructRepeat
  \/ Analyze
  \/ Select
  \/ BuildContext
  \/ RenderSection
  \/ Join
  \/ ValidateRule
  \/ ReturnRecorded
  \/ NextCall
  \/ NewMetaAgent

SpecRepeat == Init /\ [][NextRepeat]_vars

(* ------------------------- concurrent calls ---------------------------- *)
(* The requirements of the calls in flight together. *)
ConcurrentInputs ==
  { poor_requirements, good_requirements, senior_python_developer,
    AgentRequirements(edge_config, ExpertiseLevel.EXPERT, TeamContext.HIERARCHICAL,
                      SafetyLevel.LOW, <<>>, Take(CompetencyPool, 1)) }

ConstructConcurrent ==
  /\ pc = "start"
  /\ \E req \in ConcurrentInputs : requirements' = req
  /\ pc' = "constructed"
  /\ UNCHANGED <<caller, analysis, templates_to_use, template_context, sections,
                 system_message, rule_index, results, result, error>>
  /\ UNCHANGED <<meta_agent, history, suspended, interleaved>>

(* The stages at which a call of generate is in flight. *)
InFlight == {"select", "context", "render", "validate"}

(* Faulty variant: the list of sections is kept on the MetaAgent, shared   *)
(* by the calls, instead of in the call's locals.                          *)
Switch_sharing_sections ==
  /\ suspended' = [ pc |-> pc, caller |-> caller, requirements |-> requirements,
                analysis |-> analysis, templates_to_use |-> templates_to_use,
                template_context |-> template_context, sections |-> sections,
                system_message |-> system_message, rule_index |-> rule_index,
                results |-> results, result |-> result, error |-> error ]
  /\ pc' = suspended.pc
  /\ caller' = suspended.caller
  /\ requirements' = suspended.requirements
  /\ analysis' = suspended.analysis
  /\ templates_to_use' = suspended.templates_to_use
  /\ template_context' = suspended.template_context
  /\ UNCHANGED sections
  /\ system_message' = suspended.system_message
  /\ rule_index' = suspended.rule_index
  /\ results' = suspended.results
  /\ result' = suspended.result
  /\ error' = suspended.error
  /\ interleaved' = (interleaved \/ (pc \in InFlight /\ suspended.pc \in InFlight))
  /\ UNCHANGED <<meta_agent, history>>

(* The thread of the running call is suspended at a stage boundary and the *)
(* thread of the other call resumes; the locals are the thread's own, the  *)
(* MetaAgent is shared.                                                    *)
Switch ==
  /\ suspended' = [ pc |-> pc, caller |-> caller, requirements |-> requirements,
                analysis |-> analysis, templates_to_use |-> templates_to_use,
                template_context |-> template_context, sections |-> sections,
                system_message |-> system_message, rule_index |-> rule_index,
                results |-> results, result |-> result, error |-> error ]
  /\ pc' = suspended.pc
  /\ caller' = suspended.caller
  /\ requirements' = suspended.requirements
  /\ analysis' = suspended.analysis
  /\ templates_to_use' = suspended.templates_to_use
  /\ template_context' = suspended.template_context
  /\ sections' = suspended.sections
  /\ system_message' = suspended.system_message
  /\ rule_index' = suspended.rule_index
  /\ results' = suspended.results
  /\ result' = suspended.result
  /\ error' = suspended.error
  /\ interleaved' = (interleaved \/ (pc \in InFlight /\ suspended.pc \in InFlight))
  /\ UNCHANGED <<meta_agent, history>>

NextConcurrent ==
  \/ ConstructConcurrent
  \/ Analyze
  \/ Select
  \/ BuildContext
  \/ RenderSection
  \/ Join
  \/ ValidateRule
  \/ Return
  \/ NextCall
  \/ Switch

SpecConcurrent == Init /\ [][NextConcurrent]_vars

(* ---------------- calls that differ in unused fields ------------------ *)
(* Values of work_environment, primary_tasks and max_tool_calls: those of  *)
(* the default and of the example configurations.                          *)
WorkEnvironments == { <<"general">>, <<"agile_development">> }

TaskLists == { <<>>, technical_config.primary_tasks }

ToolCallLimits == {10, 15, 50}

(* The requirements that differ from req at most in work_environment and   *)
(* primary_tasks and, when req has no tool, in max_tool_calls.             *)
SameButUnusedFields(req) ==
  { [req EXCEPT !.work_environment = w, !.primary_tasks = p, !.max_tool_calls = m] :
      w \in WorkEnvironments, p \in TaskLists,
      m \in IF req.tools_available = <<>> THEN ToolCallLimits ELSE {req.max_tool_calls} }

(* Requirements over both ends of each enum, with and without tools, and   *)
(* the examples.                                                           *)
VariantBases ==
  ConcurrentInputs \cup
  { AgentRequirements(config, e, t, s, Take(ToolPool, nt), <<>>) :
      config \in Configs,
      e \in {ExpertiseLevel.BEGINNER, ExpertiseLevel.EXPERT},
      t \in {TeamContext.SOLO, TeamContext.HIERARCHICAL},
      s \in {SafetyLevel.LOW, SafetyLevel.HIGH},
      nt \in {0, 2} }

VariantInputs == UNION { SameButUnusedFields(b) : b \in VariantBases }

ConstructVariant ==
  /\ pc = "start"
  /\ \E req \in VariantInputs : requirements' = req
  /\ pc' = "constructed"
  /\ UNCHANGED <<caller, analysis, templates_to_use, template_context, sections,
                 system_message, rule_index, results, result, error>>
  /\ UNCHANGED <<meta_agent, history, suspended, interleaved>>

NextVariants ==
  \/ ConstructVariant
  \/ Analyze
  \/ Select
  \/ BuildContext
  \/ RenderSection
  \/ Join
  \/ ValidateRule
  \/ Return
  \/ NextCall

SpecVariants == Init /\ [][NextVariants]_vars

(* ------------------------------ claims -------------------------------- *)
(* A call of generate_system_message has returned. *)
Generated == pc = "done" /\ caller = "generate"

(* The enum fields of the requirements hold members of their enums. *)
ValidEnums(req) ==
  /\ req.expertise_level \in Members(ExpertiseLevel)
  /\ req.team_context \in Members(TeamContext)
  /\ req.safety_level \in Members(SafetyLevel)

(* The elements of a sequence. *)
Range(s) == {s[i] : i \in 1..Len(s)}

(* The section ids in the order the design fixes. *)
FixedOrder ==
  << "constitutional_base", "role_specialization", "reasoning_structure",
     "tool_integration", "communication_protocols", "safety_constraints",
     "output_formatting" >>

(* The check names in declaration order. *)
CheckNames ==
  << "constitutional_compliance", "role_clarity", "reasoning_structure",
     "safety_constraints", "communication_protocols" >>

(* C1: the complexity score generate returns is base(expertise_level) +     *)
(* min(number of tools, 3) + 2 when team_context is not solo + 2 when       *)
(* safety_level is high, with base 1, 2, 3, 4 for beginner .. expert; no    *)
(* other field enters it.                                                   *)
C1_ComplexityScoreFormula ==
  Generated =>
    LET req == requirements
        base == CASE req.expertise_level = ExpertiseLevel.BEGINNER -> 1
                  [] req.expertise_level = ExpertiseLevel.INTERMEDIATE -> 2
                  [] req.expertise_level = ExpertiseLevel.ADVANCED -> 3
                  [] req.expertise_level = ExpertiseLevel.EXPERT -> 4
        tools == IF Len(req.tools_available) <= 3 THEN Len(req.tools_available) ELSE 3
        team == IF req.team_context = TeamContext.SOLO THEN 0 ELSE 2
        safety == IF req.safety_level = SafetyLevel.HIGH THEN 2 ELSE 0
    IN  result.analysis.complexity_score = base + tools + team + safety

(* C1 witness: expert, 4 tools, collaborative, high safety scores 11. *)
C1_Witness ==
  /\ Generated
  /\ requirements.expertise_level = ExpertiseLevel.EXPERT
  /\ Len(requirements.tools_available) = 4
  /\ requirements.team_context = TeamContext.COLLABORATIVE
  /\ requirements.safety_level = SafetyLevel.HIGH
  /\ result.analysis.complexity_score = 11

(* C2: the section ids generate used are a duplicate-free subsequence of    *)
(* the fixed order, starting with the constitutional base, ending with      *)
(* output_formatting and containing reasoning_structure,                    *)
(* communication_protocols and safety_constraints.                          *)
C2_SectionsFollowFixedOrder ==
  Generated =>
    LET used == result.templates_used
        Pos(id) == CHOOSE k \in 1..Len(FixedOrder) : FixedOrder[k] = id
    IN  /\ Range(used) \subseteq Range(FixedOrder)
        /\ \A i, j \in 1..Len(used) : i < j => Pos(used[i]) < Pos(used[j])
        /\ used[1] = "constitutional_base"
        /\ used[Len(used)] = "output_formatting"
        /\ {"reasoning_structure", "communication_protocols", "safety_constraints"}
             \subseteq Range(used)

(* C2 witness: a call that selected all seven sections. *)
C2_Witness == Generated /\ result.templates_used = FixedOrder

(* C3: role_specialization is among the sections used exactly when there    *)
(* is a competency or the complexity score is at least 3; a beginner, solo, *)
(* not high-safety agent without tools and competencies gets none.          *)
C3_RoleSpecializationIff ==
  Generated =>
    LET req == requirements
        has == "role_specialization" \in Range(result.templates_used)
    IN  /\ has <=> (req.core_competencies # <<>> \/ result.analysis.complexity_score >= 3)
        /\ ( /\ req.expertise_level = ExpertiseLevel.BEGINNER
             /\ req.team_context = TeamContext.SOLO
             /\ req.safety_level # SafetyLevel.HIGH
             /\ req.tools_available = <<>>
             /\ req.core_competencies = <<>> ) => ~has

(* C3 witness: no competency and a score of exactly 3 selects the section. *)
C3_Witness ==
  /\ Generated
  /\ requirements.core_competencies = <<>>
  /\ result.analysis.complexity_score = 3
  /\ "role_specialization" \in Range(result.templates_used)

(* C4: tool_integration is among the sections used exactly when there are   *)
(* tools, and without tools the text holds neither tool heading.            *)
C4_ToolIntegrationIff ==
  Generated =>
    /\ ("tool_integration" \in Range(result.templates_used))
          <=> (requirements.tools_available # <<>>)
    /\ requirements.tools_available = <<>> =>
          /\ ~In(<<"Available Tools and Usage Guidelines">>, result.system_message)
          /\ ~In(<<"Tool Usage Principles">>, result.system_message)

(* C4 witness: a call without tools whose text has no tool heading, the     *)
(* role_specialization section being present.                               *)
C4_Witness ==
  /\ Generated
  /\ requirements.tools_available = <<>>
  /\ "role_specialization" \in Range(result.templates_used)
  /\ "tool_integration" \notin Range(result.templates_used)
  /\ ~In(<<"Tool Usage Principles">>, result.system_message)

(* C5: the text is the fragments of the selected sections, one per section  *)
(* id, in selection order, two line ends between consecutive fragments;     *)
(* the list of sections used has the length and order of the fragments.     *)
C5_TextIsJoinedFragments ==
  (caller = "generate" /\ pc \in {"validate", "done"}) =>
    LET n == Len(templates_to_use)
        End[i \in 0..n] ==
          IF i = 0 THEN 0
          ELSE End[i - 1] + (IF i > 1 THEN 2 ELSE 0) + Len(sections[i])
    IN  /\ Len(sections) = n
        /\ \A i \in 1..n : sections[i] = Render(templates_to_use[i], template_context)
        /\ Len(system_message) = End[n]
        /\ \A i \in 1..n :
              SubSeq(system_message, End[i] - Len(sections[i]) + 1, End[i]) = sections[i]
        /\ \A i \in 1..(n - 1) :
              /\ system_message[End[i] + 1] = "\n"
              /\ system_message[End[i] + 2] = "\n"
        /\ pc = "done" =>
              /\ result.system_message = system_message
              /\ result.templates_used = templates_to_use

(* C5 witness: a returned text of seven fragments. *)
C5_Witness ==
  /\ Generated
  /\ Len(sections) = 7
  /\ Len(result.templates_used) = 7
  /\ Len(result.system_message) > 12

(* C6, as stated: a selected template that reads a context key the context *)
(* does not supply aborts generate: no fragment of it, no result.           *)
C6_UndefinedKeyAborts ==
  \A i \in 1..Len(templates_to_use) :
     (pc \in {"render", "validate", "done", "raised"}
        /\ MissingKeys(templates_to_use[i], template_context) # {})
     => (Len(sections) < i /\ pc # "validate" /\ pc # "done")

(* C6, amended: the only key a template reads and the context lacks is      *)
(* decision_scenarios of role_specialization; it is undefined, which is     *)
(* false in the template's test, so the section is rendered without its     *)
(* "Specialized Scenarios" block, and generate raises no templating error   *)
(* and returns the full text.                                               *)
C6_UndefinedKeyRendersEmpty ==
  /\ error # "UndefinedError"
  /\ \A i \in 1..Len(sections) :
        LET missing == MissingKeys(templates_to_use[i], template_context)
        IN  /\ missing \subseteq {"decision_scenarios"}
            /\ missing # {} =>
                 /\ templates_to_use[i] = "role_specialization"
                 /\ sections[i] # <<>>
                 /\ ~In(<<"Specialized Scenarios">>, sections[i])
                 /\ pc # "raised"
                 /\ pc = "done" => In(sections[i], result.system_message)

(* C6 witness: generate returned a text with the role_specialization        *)
(* section, whose template reads the key the context lacks.                 *)
C6_Witness ==
  /\ Generated
  /\ \E i \in 1..Len(sections) :
        /\ MissingKeys(templates_to_use[i], template_context) = {"decision_scenarios"}
        /\ In(sections[i], result.system_message)

(* C7, as stated: an AgentRequirements whose expertise_level, team_context *)
(* or safety_level is no member of its enum is never constructed.           *)
C7_InvalidEnumFailsConstruction ==
  pc \in {"constructed", "select", "context", "render", "validate", "done"}
    => ValidEnums(requirements)

(* C8: for valid requirements generate never raises, every stage can take   *)
(* its step (in validate: the next rule is still to run, or validate        *)
(* returns), and the result holds a non-empty text, the validation report   *)
(* of five checks, the analysis and the sections used; a failing check only *)
(* clears overall_pass: the remaining rules still run and nothing is cut.   *)
C8_GenerateCompletes ==
  /\ (caller = "generate" /\ ValidEnums(requirements)) => pc # "raised"
  /\ (pc \in {"constructed", "select", "context", "render"} /\ ValidEnums(requirements))
       => ENABLED (Analyze \/ Select \/ BuildContext \/ RenderSection \/ Join)
  /\ pc = "validate" =>
        IF rule_index \in 1..Len(validation_rules)
        THEN check_name(validation_rules[rule_index]) \notin DOMAIN results.checks
        ELSE ENABLED Return
  /\ (Generated /\ ValidEnums(requirements)) =>
        /\ DOMAIN result = {"system_message", "validation", "analysis", "templates_used"}
        /\ result.system_message # <<>>
        /\ result.system_message = join_sections(sections)
        /\ DOMAIN result.validation.checks = Range(CheckNames)
        /\ result.analysis.complexity_score >= 1
        /\ result.templates_used # <<>>
  /\ (pc = "done" /\ ~results.overall_pass) =>
        /\ DOMAIN results.checks = Range(CheckNames)
        /\ error = "none"

(* C8 witness: the largest configuration of the inputs has returned:        *)
(* the 200-letter role, hierarchical, high safety, MaxTools tools.          *)
C8_Witness ==
  /\ Generated
  /\ requirements.role = edge_config.role
  /\ requirements.team_context = TeamContext.HIERARCHICAL
  /\ requirements.safety_level = SafetyLevel.HIGH
  /\ Len(requirements.tools_available) = MaxTools
  /\ Len(requirements.core_competencies) = MaxCompetencies
  /\ result.system_message # <<>>

(* C9: validate returns exactly the five checks, and overall_pass is true   *)
(* exactly when all five have passed.                                       *)
C9_OverallPassIsConjunction ==
  pc = "done" =>
    /\ DOMAIN results.checks = Range(CheckNames)
    /\ results.overall_pass <=> (\A n \in Range(CheckNames) : results.checks[n].passed)
    /\ caller = "generate" => result.validation = results
    /\ caller = "validate" => result = results

(* C9 witness: the first check failed, the last passed, overall_pass false. *)
C9_Witness ==
  /\ pc = "done"
  /\ ~results.checks["constitutional_compliance"].passed
  /\ results.checks["communication_protocols"].passed
  /\ ~results.overall_pass

(* C10: the suggestions validate returns are the suggestion lists of the    *)
(* failed checks, concatenated in declaration order; no suggestion of a     *)
(* passed check is among them.                                              *)
C10_SuggestionsOfFailedChecks ==
  pc = "done" =>
    /\ results.suggestions =
         Cat([k \in 1..Len(CheckNames) |->
                IF results.checks[CheckNames[k]].passed THEN <<>>
                ELSE results.checks[CheckNames[k]].suggestions])
    /\ \A n \in Range(CheckNames) :
          results.checks[n].passed =>
             Range(results.checks[n].suggestions) \cap Range(results.suggestions) = {}

(* C10 witness: role_clarity passed with a suggestion of its own, while      *)
(* two other checks failed and gave theirs.                                  *)
C10_Witness ==
  /\ pc = "done"
  /\ results.checks["role_clarity"].passed
  /\ results.checks["role_clarity"].suggestions # <<>>
  /\ Len(results.suggestions) >= 2

(* The word occurs in the text, in any letter case. *)
Occurs(word, msg) == \E i \in 1..Len(msg) : Lower(msg[i]) = word

(* The words occur in the text one after the other, in any letter case. *)
OccursRun(words, msg) ==
  \E k \in 0..(Len(msg) - Len(words)) :
     \A j \in 1..Len(words) : Lower(msg[k + j]) = Lower(words[j])

(* How many of the words occur in the text. *)
HowMany(words, msg) == Cardinality({w \in words : Occurs(w, msg)})

(* C11, as stated: each of the five check results carries at most one       *)
(* suggestion, and a passing check carries none.                            *)
C11_AtMostOneSuggestionOnlyOnFailure ==
  pc = "done" =>
    \A n \in Range(CheckNames) :
       /\ Len(results.checks[n].suggestions) <= 1
       /\ results.checks[n].passed => results.checks[n].suggestions = <<>>

(* C11, amended: each check other than role_clarity carries exactly one     *)
(* suggestion when it failed and none when it passed; role_clarity carries  *)
(* one suggestion for each of role, domain and purpose it did not find, up  *)
(* to three, so it carries one also when it passes with two of the three.   *)
C11_SuggestionsPerCheck ==
  pc = "done" =>
    /\ \A n \in Range(CheckNames) \ {"role_clarity"} :
          Len(results.checks[n].suggestions) = IF results.checks[n].passed THEN 0 ELSE 1
    /\ LET rc == results.checks["role_clarity"]
       IN  /\ Len(rc.suggestions) = 3 - rc.clarity_score
           /\ rc.passed <=> Len(rc.suggestions) <= 1
           /\ Cardinality(Range(rc.suggestions)) = Len(rc.suggestions)

(* C11 witness: role_clarity passed and carries one suggestion, while the   *)
(* constitutional check failed with its single suggestion.                  *)
C11_Witness ==
  /\ pc = "done"
  /\ results.checks["role_clarity"].passed
  /\ Len(results.checks["role_clarity"].suggestions) = 1
  /\ ~results.checks["constitutional_compliance"].passed
  /\ Len(results.checks["constitutional_compliance"].suggestions) = 1

(* C12: the constitutional check passes exactly when at least 3 of          *)
(* helpfulness, harmlessness, honesty, transparency occur in the text in    *)
(* any letter case; helpfulness, honesty and transparency alone pass,       *)
(* helpfulness alone fails; found_principles lists exactly the words that   *)
(* occur, in the order of the list.                                         *)
C12_ConstitutionalThreeOfFour ==
  pc = "done" =>
    LET cc == results.checks["constitutional_compliance"]
        words == {"helpfulness", "harmlessness", "honesty", "transparency"}
    IN  /\ cc.passed <=> HowMany(words, system_message) >= 3
        /\ Range(cc.found_principles) = {w \in words : Occurs(w, system_message)}
        /\ Len(cc.found_principles) = HowMany(words, system_message)
        /\ system_message = WordsText(WordPools[1], {1, 3, 4}) => cc.passed
        /\ system_message = WordsText(WordPools[1], {1}) => ~cc.passed

(* C12 witness: the text of helpfulness, honesty and transparency alone has *)
(* been validated and passed with those three found.                        *)
C12_Witness ==
  /\ pc = "done"
  /\ system_message = WordsText(WordPools[1], {1, 3, 4})
  /\ results.checks["constitutional_compliance"].passed
  /\ results.checks["constitutional_compliance"].found_principles
        = <<"helpfulness", "honesty", "transparency">>

(* C13: role_clarity passes exactly when at least 2 of: the role occurs in  *)
(* the text, the domain occurs in the text, 'purpose' occurs in the text    *)
(* (any letter case); clarity_score is the number that hold.                *)
C13_RoleClarityTwoOfThree ==
  pc = "done" =>
    LET rc == results.checks["role_clarity"]
        holds == << OccursRun(requirements.role, system_message),
                    OccursRun(requirements.domain, system_message),
                    Occurs("purpose", system_message) >>
        n == Cardinality({k \in 1..3 : holds[k]})
    IN  /\ rc.clarity_score = n
        /\ rc.passed <=> n >= 2

(* C13 witness: a text with the role and the domain in other letter cases   *)
(* and without 'purpose' scores 2 and passes.                               *)
C13_Witness ==
  /\ pc = "done"
  /\ system_message = WordsText(WordPools[2], {1, 2})
  /\ requirements.role = poor_config.role
  /\ results.checks["role_clarity"].clarity_score = 2
  /\ results.checks["role_clarity"].passed

(* C14: the safety check passes exactly when the number of the keywords     *)
(* safety, error handling, escalation, validation, constraints occurring in *)
(* the text is at least 2 for safety_level high and at least 1 for medium   *)
(* or low.                                                                  *)
C14_SafetyThreshold ==
  (pc = "done" /\ requirements.safety_level \in Members(SafetyLevel)) =>
    LET sc == results.checks["safety_constraints"]
        n == HowMany({"safety", "error handling", "escalation", "validation",
                      "constraints"}, system_message)
    IN  /\ sc.safety_keywords_found = n
        /\ requirements.safety_level = SafetyLevel.HIGH => (sc.passed <=> n >= 2)
        /\ requirements.safety_level \in {SafetyLevel.MEDIUM, SafetyLevel.LOW}
              => (sc.passed <=> n >= 1)

(* C14 witness: with safety_level high a text with one keyword fails.       *)
C14_Witness ==
  /\ pc = "done"
  /\ requirements.safety_level = SafetyLevel.HIGH
  /\ results.checks["safety_constraints"].safety_keywords_found = 1
  /\ ~results.checks["safety_constraints"].passed

(* C15: the reasoning check passes exactly when at least 2 of thought:,     *)
(* action:, observation:, analysis, planning occur in the text, the         *)
(* communication check exactly when at least 2 of communication, reporting, *)
(* status, format occur, in any letter case; other requirements give the    *)
(* same two results for the same text.                                      *)
C15_ReasoningAndCommunication ==
  pc = "done" =>
    LET rs == results.checks["reasoning_structure"]
        cp == results.checks["communication_protocols"]
        nr == HowMany({"thought:", "action:", "observation:", "analysis", "planning"},
                      system_message)
        nc == HowMany({"communication", "reporting", "status", "format"}, system_message)
    IN  /\ rs.reasoning_patterns_found = nr
        /\ rs.passed <=> nr >= 2
        /\ cp.communication_elements = nc
        /\ cp.passed <=> nc >= 2
        /\ \A config \in Configs, s \in Members(SafetyLevel) :
              LET other == AgentRequirements(config, ExpertiseLevel.EXPERT,
                                             TeamContext.HIERARCHICAL, s, <<>>, <<>>)
              IN  /\ ApplyRule("_check_reasoning_structure", system_message, other) = rs
                  /\ ApplyRule("_check_communication_protocols", system_message, other) = cp

(* C15 witness: a text with two reasoning patterns and no communication     *)
(* element passes the one check and fails the other.                        *)
C15_Witness ==
  /\ pc = "done"
  /\ results.checks["reasoning_structure"].reasoning_patterns_found = 2
  /\ results.checks["reasoning_structure"].passed
  /\ results.checks["communication_protocols"].communication_elements = 0
  /\ ~results.checks["communication_protocols"].passed

(* C16: a call of generate with requirements equal to those of an earlier  *)
(* call, on the same MetaAgent or on a new one and after any calls in      *)
(* between, returns the text, the validation report, the complexity score  *)
(* and the list of sections of the earlier call.                           *)
C16_GenerateIsDeterministic ==
  (Generated /\ history # None /\ history.requirements = requirements) =>
    /\ result.system_message = history.result.system_message
    /\ result.validation = history.result.validation
    /\ result.analysis.complexity_score = history.result.analysis.complexity_score
    /\ result.templates_used = history.result.templates_used

(* C16 witness: the technical requirements have been generated a second    *)
(* time, the text having its role_specialization section.                  *)
C16_Witness ==
  /\ Generated
  /\ history # None
  /\ history.requirements = requirements
  /\ history.repeated
  /\ requirements.role = technical_config.role
  /\ "role_specialization" \in Range(result.templates_used)

(* The text of the section the call rendered from the template, empty when *)
(* the template was not selected.                                          *)
SectionOf(name) ==
  IF \E i \in 1..Len(sections) : templates_to_use[i] = name
  THEN sections[CHOOSE i \in 1..Len(sections) : templates_to_use[i] = name]
  ELSE <<>>

(* C17: with team_context solo the text has neither the 'Team Integration' *)
(* paragraph nor the 'Handoff Protocols' paragraph with its delegation     *)
(* lines; with collaborative or hierarchical it has both, the team         *)
(* paragraph in the collaborative wording for collaborative and in the     *)
(* hierarchical wording, which contains 'hierarchical', for hierarchical.  *)
C17_TeamParagraphs ==
  Generated =>
    LET msg == result.system_message
        team == In(<<"## ", "Team Integration", "\n">>, msg)
        handoff == In(<<"### ", "Handoff Protocols", "\n">>, msg)
        delegating == In(<<"**When delegating tasks**:">>, msg)
        collaborative == In(<<"You work as part of a ", "collaborative", " team where ">>, msg)
        hierarchical == In(<<"You operate within a ", "hierarchical", " structure with clear ">>, msg)
    IN  /\ requirements.team_context = TeamContext.SOLO =>
              ~team /\ ~handoff /\ ~delegating /\ ~collaborative /\ ~hierarchical
        /\ requirements.team_context = TeamContext.COLLABORATIVE =>
              team /\ handoff /\ delegating /\ collaborative /\ ~hierarchical
        /\ requirements.team_context = TeamContext.HIERARCHICAL =>
              /\ team /\ handoff /\ delegating /\ hierarchical /\ ~collaborative
              /\ Occurs("hierarchical", msg)

(* C17 witness: a hierarchical call returned a text with the hierarchical  *)
(* team paragraph and the handoff paragraph.                               *)
C17_Witness ==
  /\ Generated
  /\ requirements.team_context = TeamContext.HIERARCHICAL
  /\ In(<<"You operate within a ", "hierarchical", " structure with clear ">>,
        result.system_message)
  /\ In(<<"### ", "Handoff Protocols", "\n">>, result.system_message)

(* C18: the safety section holds exactly one of the three requirement      *)
(* lists, the one of the safety_level: 'Critical Safety Requirements' for  *)
(* high, 'Standard Safety Requirements' for medium, 'Basic Safety          *)
(* Requirements' for low; the section has the word 'critical' for high and *)
(* does not have it for low.                                               *)
C18_SafetyListByLevel ==
  (Generated /\ requirements.safety_level \in Members(SafetyLevel)) =>
    LET sec == SectionOf("safety_constraints")
        critical == /\ In(<<"**", "Critical", " ", "Safety", " Requirements**:", "\n">>, sec)
                    /\ In(<<"- Maintain comprehensive audit logs", "\n">>, sec)
        standard == /\ In(<<"**Standard ", "Safety", " Requirements**:", "\n">>, sec)
                    /\ In(<<"- Log all significant actions", "\n">>, sec)
        basic == /\ In(<<"**Basic ", "Safety", " Requirements**:", "\n">>, sec)
                 /\ In(<<"- Report unusual situations", "\n">>, sec)
        anyCritical == In(<<"Critical", " ", "Safety", " Requirements**:">>, sec)
                          \/ In(<<"- Maintain comprehensive audit logs">>, sec)
        anyStandard == In(<<"**Standard ">>, sec) \/ In(<<"- Log all significant actions">>, sec)
        anyBasic == In(<<"**Basic ">>, sec) \/ In(<<"- Report unusual situations">>, sec)
    IN  /\ In(sec, result.system_message) /\ sec # <<>>
        /\ requirements.safety_level = SafetyLevel.HIGH =>
              critical /\ ~anyStandard /\ ~anyBasic /\ Occurs("critical", sec)
        /\ requirements.safety_level = SafetyLevel.MEDIUM =>
              standard /\ ~anyCritical /\ ~anyBasic
        /\ requirements.safety_level = SafetyLevel.LOW =>
              basic /\ ~anyCritical /\ ~anyStandard /\ ~Occurs("critical", sec)

(* C18 witness: a high-safety call whose safety section has the critical   *)
(* list.                                                                   *)
C18_Witness ==
  /\ Generated
  /\ requirements.safety_level = SafetyLevel.HIGH
  /\ Occurs("critical", SectionOf("safety_constraints"))
  /\ In(<<"- Maintain comprehensive audit logs", "\n">>, SectionOf("safety_constraints"))

(* C19, as stated: generate on the vague requirements of the tests reports *)
(* an overall_pass other than that of the well-specified requirements,     *)
(* which is true: the vague ones report false, the well-specified true.    *)
C19_ValidationDistinguishesGoodFromPoor ==
  Generated =>
    /\ requirements = good_requirements => result.validation.overall_pass
    /\ requirements = poor_requirements => ~result.validation.overall_pass

(* C20: for expert, high safety, at least one tool and at least one        *)
(* competency generate reports overall_pass true, no suggestion, and all   *)
(* seven sections in the fixed order.                                      *)
C20_FullConfigurationPasses ==
  ( /\ Generated
    /\ requirements.expertise_level = ExpertiseLevel.EXPERT
    /\ requirements.safety_level = SafetyLevel.HIGH
    /\ requirements.tools_available # <<>>
    /\ requirements.core_competencies # <<>> ) =>
    /\ result.validation.overall_pass
    /\ result.validation.suggestions = <<>>
    /\ result.templates_used = FixedOrder

(* C20 witness: the Senior Python Developer example with three tools and   *)
(* three competencies has returned and passed.                             *)
C20_Witness ==
  /\ Generated
  /\ requirements = senior_python_developer
  /\ Len(requirements.tools_available) = 3
  /\ Len(requirements.core_competencies) = 3
  /\ result.validation.overall_pass
  /\ Len(result.templates_used) = 7

(* C21: two calls of generate on one MetaAgent, their stages interleaved   *)
(* in any order, each return the result the call returns when it runs      *)
(* alone, and no stage writes the state the calls share.                   *)
C21_InterleavedCallsAsAlone ==
  /\ meta_agent = MetaAgent
  /\ Generated => result = generate_system_message(requirements)
  /\ (suspended.pc = "done" /\ suspended.caller = "generate")
        => suspended.result = generate_system_message(suspended.requirements)

(* C21 witness: two calls on different requirements, suspended and resumed *)
(* while both were in flight, have both returned.                          *)
C21_Witness ==
  /\ Generated
  /\ suspended.pc = "done"
  /\ suspended.caller = "generate"
  /\ interleaved
  /\ requirements = good_requirements
  /\ suspended.requirements = senior_python_developer

(* C22: the output-formatting section holds exactly one of the four rule   *)
(* paragraphs: the markdown rules exactly for 'structured_markdown', the   *)
(* JSON rules exactly for 'json', the XML rules exactly for 'xml', and the *)
(* structured-text rules for every other value, 'structured_text' and      *)
(* 'JSON' among them.                                                      *)
C22_OutputFormatBranches ==
  Generated =>
    LET sec == SectionOf("output_formatting")
        fmt == requirements.output_format
        markdown == /\ In(<<"- Use clear headers and subheaders", "\n">>, sec)
                    /\ In(<<"- Include relevant links and references", "\n">>, sec)
        json == /\ In(<<"- Use valid JSON syntax", "\n">>, sec)
                /\ In(<<"- Use descriptive key names", "\n">>, sec)
        xml == /\ In(<<"- Use valid XML syntax with proper escaping", "\n">>, sec)
               /\ In(<<"- Validate XML structure before output", "\n">>, sec)
        text == /\ In(<<"- Use clear, structured text ", "format", "\n">>, sec)
                /\ In(<<"- Maintain consistent ", "format", "ting", "\n">>, sec)
        anyOf == << In(<<"- Use clear headers and subheaders">>, sec)
                      \/ In(<<"- Include relevant links and references">>, sec),
                    In(<<"- Use valid JSON syntax">>, sec)
                      \/ In(<<"- Use descriptive key names">>, sec),
                    In(<<"- Use valid XML syntax with proper escaping">>, sec)
                      \/ In(<<"- Validate XML structure before output">>, sec),
                    In(<<"- Use clear, structured text ">>, sec)
                      \/ In(<<"- Maintain consistent ">>, sec) >>
    IN  /\ sec # <<>> /\ In(sec, result.system_message)
        /\ markdown <=> fmt = <<"structured_markdown">>
        /\ json <=> fmt = <<"json">>
        /\ xml <=> fmt = <<"xml">>
        /\ text <=> fmt \notin {<<"structured_markdown">>, <<"json">>, <<"xml">>}
        /\ Cardinality({k \in 1..4 : anyOf[k]}) = 1

(* C22 witness: a call with output_format 'JSON' returned a text with the  *)
(* structured-text rules.                                                  *)
C22_Witness ==
  /\ Generated
  /\ requirements.output_format = <<"JSON">>
  /\ In(<<"- Use clear, structured text ", "format", "\n">>, SectionOf("output_formatting"))
  /\ ~In(<<"- Use valid JSON syntax">>, result.system_message)

(* The positions of a token in a text. *)
Positions(tok, sec) == {i \in 1..Len(sec) : sec[i] = tok}

(* The position of the first occurrence of a token in a text, one past the *)
(* end when the text does not have it.                                     *)
FirstPosition(tok, sec) ==
  IF Positions(tok, sec) = {} THEN Len(sec) + 1
  ELSE CHOOSE i \in Positions(tok, sec) : \A j \in Positions(tok, sec) : i <= j

(* The marked positions of the text are the starts of exactly the given    *)
(* items, in their order: there are as many marks as items, and the k-th   *)
(* mark is followed by the tokens of the k-th item.                        *)
BulletsAre(sec, marks, items) ==
  LET upto[i \in 0..Len(sec)] ==
        IF i = 0 THEN 0 ELSE upto[i - 1] + (IF i \in marks THEN 1 ELSE 0)
  IN  /\ upto[Len(sec)] = Len(items)
      /\ \A i \in marks :
            /\ upto[i] <= Len(items)
            /\ i + Len(items[upto[i]]) <= Len(sec)
            /\ SubSeq(sec, i + 1, i + Len(items[upto[i]])) = items[upto[i]]

(* C23: each iterated field is rendered, in the section that iterates it,  *)
(* as exactly one sub-section (tools) or bullet (competencies, quality     *)
(* standards, domain standards, escalation conditions) per element, in the *)
(* order of the input and once per repeated element; every tool name and   *)
(* every competency name of the requirements appears in the text.          *)
C23_OneBulletPerElementInOrder ==
  Generated =>
    LET req == requirements
        msg == result.system_message
        tools == SectionOf("tool_integration")
        role == SectionOf("role_specialization")
        comm == SectionOf("communication_protocols")
        safety == SectionOf("safety_constraints")
        triggers == FirstPosition(" Triggers", comm)
        domain_heading == FirstPosition("### Domain-Specific Standards", safety)
    IN  /\ "tool_integration" \in Range(result.templates_used) =>
              BulletsAre(tools,
                         {i \in Positions("### ", tools) : tools[i + 1] # "Tool Usage Principles"},
                         [k \in 1..Len(req.tools_available) |->
                            req.tools_available[k].name
                            \o <<"\n", "**", "Purpose", "**: ">>
                            \o req.tools_available[k].description
                            \o <<"\n", "**Use when**: ">>
                            \o req.tools_available[k].usage_conditions
                            \o <<"\n">>])
        /\ "role_specialization" \in Range(result.templates_used) =>
              BulletsAre(role, Positions("- **", role),
                         [k \in 1..Len(req.core_competencies) |->
                            req.core_competencies[k].name
                            \o <<"**: ">>
                            \o req.core_competencies[k].description
                            \o <<"\n">>])
        /\ triggers <= Len(comm)
        /\ BulletsAre(comm, {i \in Positions("- ", comm) : i > triggers},
                      [k \in 1..Len(req.escalation_conditions) |->
                         req.escalation_conditions[k] \o <<"\n">>])
        /\ BulletsAre(safety, {i \in Positions("- ", safety) : i < domain_heading},
                      [k \in 1..Len(req.quality_standards) |->
                         req.quality_standards[k].name
                         \o <<": ">>
                         \o req.quality_standards[k].description
                         \o <<"\n", "  - Measurement: ">>
                         \o req.quality_standards[k].measurement_method
                         \o <<"\n", "  - Threshold: ">>
                         \o req.quality_standards[k].threshold
                         \o <<"\n">>])
        /\ BulletsAre(safety, {i \in Positions("- ", safety) : i > domain_heading},
                      [k \in 1..Len(req.domain_standards) |->
                         req.domain_standards[k] \o <<"\n">>])
        /\ \A k \in 1..Len(req.tools_available) :
              In(req.tools_available[k].name, msg)
        /\ \A k \in 1..Len(req.core_competencies) :
              In(req.core_competencies[k].name, msg)

(* C23 witness: a call returned for requirements that name a tool twice    *)
(* and a competency twice and have quality standards, domain standards and *)
(* escalation conditions.                                                  *)
C23_Witness ==
  /\ Generated
  /\ \E i, j \in 1..Len(requirements.tools_available) :
        i < j /\ requirements.tools_available[i] = requirements.tools_available[j]
  /\ \E i, j \in 1..Len(requirements.core_competencies) :
        i < j /\ requirements.core_competencies[i] = requirements.core_competencies[j]
  /\ requirements.quality_standards # <<>>
  /\ Len(requirements.domain_standards) >= 2
  /\ Len(requirements.escalation_conditions) >= 2
  /\ "tool_integration" \in Range(result.templates_used)
  /\ "role_specialization" \in Range(result.templates_used)

(* The tokens of the templates that begin a bullet line. *)
BulletTokens ==
  { "   - Adapt approach based on feedback",
    "   - Assess complexity and resource needs",
    "   - Break down the request into component parts",
    "   - Check outputs against requirements",
    "   - Confirm goal achievement",
    "   - Determine appropriate tools and methods",
    "   - Execute plan with continuous monitoring",
    "   - Identify key requirements and ",
    "   - Identify potential risks and mitigation strategies",
    "   - Plan step-by-step approach",
    "   - Validate intermediate results",
    "   - Verify quality standards compliance", "  - Key techniques: ",
    "  - Measurement: ", "  - Quality standards: ", "  - Threshold: ",
    "- ", "- **", "- **Confidence**: [HIGH/MEDIUM/LOW] ",
    "- Always plan tool usage before execution",
    "- Always validate potentially destructive operations", "- Approach: ",
    "- Avoid potentially harmful operations",
    "- Clarity: Use clear, specific language",
    "- Conflicting requirements or goals",
    "- Follow standard operational procedures",
    "- Include XML declaration if required", "- Include all requested in",
    "- Include all required fields",
    "- Include code blocks for technical content",
    "- Include relevant links and references", "- Key considerations: ",
    "- Log all significant actions", "- Maintain comprehensive audit logs",
    "- Maintain consistent ", "- Maximum tool calls per task: ",
    "- Monitor tool performance and adapt as needed",
    "- Never perform actions that could cause system damage",
    "- Organize in", "- Report unusual situations",
    "- Require explicit confirmation for high-risk actions", "- Resource ",
    "- Structure: Organize in", "- Success criteria: ", "- Tone: ",
    "- Uncertainty about ", "- Use clear headers and subheaders",
    "- Use clear, structured text ", "- Use descriptive key names",
    "- Use lists and tables for organized in", "- Use semantic tag names",
    "- Use valid JSON syntax",
    "- Use valid XML syntax with proper escaping",
    "- Validate JSON structure before output",
    "- Validate XML structure before output",
    "- Validate inputs and outputs for ",
    "- \"Approach: [planned_method]\"",
    "- \"Context: [relevant_background]\"", "- \"Deadline: [timeframe]\"",
    "- \"Estimated completion: [timeframe]\"",
    "- \"Passing [task] to [target_",
    "- \"Questions: [clarifications_needed]\"",
    "- \"Received [task] from [source_",
    "- \"Success criteria: [specific_measures]\"",
    "- \"Understanding: [task_interpretation]\"" }

(* The positions of a part of a section, from after position first up to *)
(* before position last, that begin a bullet line.                         *)
BulletsBetween(sec, first, last) ==
  {i \in 1..Len(sec) : first < i /\ i < last /\ sec[i] \in BulletTokens}

(* The position of the first heading of a section after a position, one    *)
(* past the end when there is none.                                        *)
NextHeading(sec, after) ==
  LET hs == {i \in 1..Len(sec) :
               i > after /\ sec[i] \in {"### ", "### Domain-Specific Standards"}}
  IN  IF hs = {} THEN Len(sec) + 1 ELSE CHOOSE i \in hs : \A j \in hs : i <= j

(* The parts of the text that an empty iterated field other than           *)
(* escalation_conditions leaves without bullets: no tool section, no       *)
(* 'Core Competencies' heading or competency bullet, only line ends under  *)
(* 'Quality Assurance', no 'Domain-Specific Standards' heading and no      *)
(* bullet under 'Quality Assurance' besides those of the quality standards. *)
EmptyFieldsHaveNoBullets ==
  LET req == requirements
      msg == result.system_message
      role == SectionOf("role_specialization")
      safety == SectionOf("safety_constraints")
      quality == FirstPosition("### Quality Assurance", safety)
  IN  /\ req.tools_available = <<>> =>
            /\ "tool_integration" \notin Range(result.templates_used)
            /\ ~In(<<"Available Tools and Usage Guidelines">>, msg)
            /\ ~In(<<"**Use when**: ">>, msg)
      /\ req.core_competencies = <<>> =>
            /\ ~In(<<"Core Competencies">>, msg)
            /\ BulletsBetween(role, 0, FirstPosition("### Expert Decision Framework", role)) = {}
      /\ quality <= Len(safety)
      /\ req.quality_standards = <<>> =>
            \A i \in (quality + 1)..(NextHeading(safety, quality) - 1) : safety[i] = "\n"
      /\ req.domain_standards = <<>> =>
            /\ ~In(<<"### Domain-Specific Standards">>, msg)
            /\ Cardinality({i \in Positions("- ", safety) :
                               quality < i /\ i < NextHeading(safety, quality)})
                  = Len(req.quality_standards)

(* C24 as stated: when an iterated field is empty the body of its section  *)
(* or sub-section has no bullet at all; with escalation_conditions empty   *)
(* the body under 'Escalation Triggers' lists no conditions.               *)
C24_EmptyFieldNoBulletAtAll ==
  Generated =>
    LET comm == SectionOf("communication_protocols")
        triggers == FirstPosition(" Triggers", comm)
    IN  /\ EmptyFieldsHaveNoBullets
        /\ requirements.escalation_conditions = <<>> =>
              BulletsBetween(comm, triggers, Len(comm) + 1) = {}

(* C24 amended: when an iterated field is empty the text has no bullet for *)
(* the field (only the header may remain); with escalation_conditions      *)
(* empty the body under 'Escalation Triggers' lists only its three fixed   *)
(* conditions: uncertainty about safety implications, resource constraints *)
(* and conflicting requirements or goals.                                  *)
C24_EmptyFieldNoElementBullet ==
  Generated =>
    LET comm == SectionOf("communication_protocols")
        triggers == FirstPosition(" Triggers", comm)
        listed == BulletsBetween(comm, triggers, Len(comm) + 1)
    IN  /\ EmptyFieldsHaveNoBullets
        /\ requirements.escalation_conditions = <<>> =>
              /\ {comm[i] : i \in listed}
                    = {"- Uncertainty about ", "- Resource ",
                       "- Conflicting requirements or goals"}
              /\ BulletsAre(comm, listed,
                            << <<"safety", " implications", "\n">>,
                               <<"constraints", " prevent task completion", "\n">>,
                               <<>> >>)

(* C24 witness: a call returned for requirements whose five iterated       *)
(* fields are all empty, with the role section selected.                   *)
C24_Witness ==
  /\ Generated
  /\ requirements.tools_available = <<>>
  /\ requirements.core_competencies = <<>>
  /\ requirements.quality_standards = <<>>
  /\ requirements.domain_standards = <<>>
  /\ requirements.escalation_conditions = <<>>
  /\ "role_specialization" \in Range(result.templates_used)

(* The sections every call selects, joined as generate joins them. *)
AlwaysSelectedText ==
  join_sections(<< SectionOf("constitutional_base"), SectionOf("reasoning_structure"),
                   SectionOf("communication_protocols"), SectionOf("safety_constraints") >>)

C26_PassIffNoSuggestions ==
  pc = "done" =>
    LET failed == {n \in Range(CheckNames) : ~results.checks[n].passed}
        given[k \in 0..Len(CheckNames)] ==
          IF k = 0 THEN 0
          ELSE given[k - 1] + (IF CheckNames[k] \in failed
                               THEN Len(results.checks[CheckNames[k]].suggestions)
                               ELSE 0)
    IN  /\ results.overall_pass <=> results.suggestions = <<>>
        /\ results.overall_pass <=> failed = {}
        /\ \A n \in failed :
              /\ Len(results.checks[n].suggestions) >= (IF n = "role_clarity" THEN 2 ELSE 1)
              /\ Range(results.checks[n].suggestions) \subseteq Range(results.suggestions)
        /\ Len(results.suggestions) = given[Len(CheckNames)]
        /\ Len(results.suggestions) >= Cardinality(failed)

(* C26 witness: validate returned a report in which role_clarity failed    *)
(* with at least two suggestions, another check failed too, and one passed. *)
C26_Witness ==
  /\ pc = "done"
  /\ caller = "validate"
  /\ ~results.overall_pass
  /\ ~results.checks["role_clarity"].passed
  /\ ~results.checks["communication_protocols"].passed
  /\ \E n \in Range(CheckNames) : results.checks[n].passed
  /\ Len(results.suggestions) >= 3

(* C27: the result of generate (text, validation report, analysis with the *)
(* complexity score, sections used) is the same for any two requirements   *)
(* that differ only in work_environment and primary_tasks, and also in     *)
(* max_tool_calls when tools_available is empty.                           *)
C27_ResultIgnoresUnusedFields ==
  Generated =>
    \A other_req \in SameButUnusedFields(requirements) :
       generate_system_message(other_req) = result

(* C27 witness: a call returned for requirements without tools, and        *)
(* requirements with another work environment, other primary tasks and     *)
(* another max_tool_calls exist.                                           *)
C27_Witness ==
  /\ Generated
  /\ requirements.tools_available = <<>>
  /\ requirements.core_competencies # <<>>
  /\ \E other_req \in SameButUnusedFields(requirements) :
        /\ other_req.work_environment # requirements.work_environment
        /\ other_req.primary_tasks # requirements.primary_tasks
        /\ other_req.max_tool_calls # requirements.max_tool_calls

(* C28: in the role-clarity check an empty role and an empty domain count  *)
(* as found in every text, the empty text included: with both empty the    *)
(* check passes with clarity_score at least 2 on any text, and its own     *)
(* suggestions are 'Define clear purpose statement' alone when the text    *)
(* lacks 'purpose'; being passed, it adds nothing to the report's list.    *)
C28_EmptyRoleAndDomainCountAsPresent ==
  pc = "done" =>
    LET rc == results.checks["role_clarity"]
        purpose == Occurs("purpose", system_message)
    IN  /\ requirements.role = <<>> =>
              /\ rc.clarity_score >= 1
              /\ "Include explicit role definition" \notin Range(rc.suggestions)
        /\ requirements.domain = <<>> =>
              /\ rc.clarity_score >= 1
              /\ "Specify domain expertise" \notin Range(rc.suggestions)
        /\ (requirements.role = <<>> /\ requirements.domain = <<>>) =>
              /\ rc.passed
              /\ rc.clarity_score = IF purpose THEN 3 ELSE 2
              /\ rc.suggestions = IF purpose THEN <<>>
                                  ELSE <<"Define clear purpose statement">>
              /\ "Define clear purpose statement" \notin Range(results.suggestions)

(* C28 witness: validate returned for the empty text with role = '' and    *)
(* domain = '': role_clarity passed with score 2 and suggests a purpose    *)
(* statement.                                                              *)
C28_Witness ==
  /\ pc = "done"
  /\ caller = "validate"
  /\ system_message = <<>>
  /\ requirements.role = <<>>
  /\ requirements.domain = <<>>
  /\ results.checks["role_clarity"].passed
  /\ results.checks["role_clarity"].clarity_score = 2
  /\ results.checks["role_clarity"].suggestions = <<"Define clear purpose statement">>

====
